---- MODULE Spec2Model ----
(***************************************************************************)
(* A model of synapse/handlers/sync.py: the sync handler of a Matrix home  *)
(* server.  The module holds several specifications over one set of        *)
(* variables, one per part of the handler:                                 *)
(*                                                                         *)
(*   SpecState     _calculate_state, the state-delta calculator            *)
(*   SpecTimeline  _load_filtered_recents, the timeline loader             *)
(*   SpecRooms     generate_sync_result while the user's memberships and   *)
(*                 the rooms' timelines change                             *)
(*   SpecResult    SyncResult.__nonzero__                                  *)
(*   SpecTokens    generate_sync_result while the streams advance under it *)
(*   SpecPaging    generate_sync_result with a pagination config, over     *)
(*                 rooms with tags and filtered events                     *)
(*   SpecMembers   generate_sync_result over the user's memberships, with  *)
(*                 ignored users, include_leave and peeks                  *)
(*   SpecFail      calls of wait_for_sync_for_user whose store calls fail  *)
(*   SpecConfig    the construction of a SyncPaginationConfig              *)
(*   SpecBackfill  SpecTimeline for the rooms whose old events are all     *)
(*                 hidden, with the fairness of a running call             *)
(*   SpecPaginator the paginator over three rooms whose timestamps may tie *)
(*   SpecTags      the continuation of a page after tag changes            *)
(*   SpecTimestamps  one call of _get_room_timestamps_at_token             *)
(*   SpecLimited   syncs with a timeline limit of 0 or 1 over a room whose *)
(*                 new events a filter may reject                          *)
(*   SpecAccountData  syncs over rooms with per-room account data          *)
(*   SpecFanout    the interleavings of the room materializers of a sync   *)
(*   SpecPages     a paged initial sync and the polls that ask for further *)
(*                 pages, with no new events                               *)
(*   SpecVisible   syncs of one room, any of whose events the visibility   *)
(*                 filter may reject                                       *)
(*   SpecPoll      wait_for_sync_for_user: the response cache and the      *)
(*                 long poll; SpecPollFair adds that a notifier whose      *)
(*                 timeout expired returns                                 *)
(*                                                                         *)
(* Each specification leaves the variables of the other parts at their     *)
(* idle values.                                                            *)
(***************************************************************************)
EXTENDS Integers, Sequences, FiniteSets, TLC

VARIABLES
    sd,     \* one call of _calculate_state: its four inputs and its result
    tl,     \* one call of _load_filtered_recents: its inputs and locals
    world,  \* the server's data: the streams the handler reads
    sync,   \* the client's syncs: the last request and its response
    sr,     \* one SyncResult and its truth value
    poll    \* the calls of wait_for_sync_for_user and the response cache

vars == <<sd, tl, world, sync, sr, poll>>

\* An optional value: Python's None, or a value x.
None == <<>>
Some(x) == <<x>>
IsNone(o) == o = <<>>
Val(o) == o[1]

Max(a, b) == IF a >= b THEN a ELSE b
Min(a, b) == IF a <= b THEN a ELSE b

Range(f) == {f[x] : x \in DOMAIN f}

\* A local variable: value, under the name Rest gives it.
Bind(value, Rest(_)) == CHOOSE r \in {Rest(x) : x \in {value}} : TRUE

SdIdle == [pc |-> "idle"]
TlIdle == [pc |-> "idle"]
WorldIdle == [pc |-> "idle"]
SyncIdle == [pc |-> "idle"]
SrIdle == [pc |-> "idle"]
PollIdle == [pc |-> "idle"]

(***************************************************************************)
(* _calculate_state                                                        *)
(*                                                                         *)
(* An event is a record with an event_id, a type and a state_key; a state  *)
(* map is a function from keys <<type, state_key>> to events of that key.  *)
(* In SpecState the events are StateEvent(1), ..., StateEvent(N), and      *)
(* several of them share one key.                                          *)
(***************************************************************************)
NumStateEvents == 3
NumStateKeys == 2

StateEvent(i) ==
    [event_id |-> i, type |-> "m.room.member",
     state_key |-> ((i - 1) % NumStateKeys) + 1]

StateEvents == {StateEvent(i) : i \in 1..NumStateEvents}

\* (e.type, e.state_key)
KeyOf(e) == <<e.type, e.state_key>>

\* Every dict (type, state_key) -> event over StateEvents.
StateMaps ==
    LET keys == {KeyOf(e) : e \in StateEvents}
    IN  UNION {{m \in [ks -> StateEvents] : \A k \in ks : KeyOf(m[k]) = k}
               : ks \in SUBSET keys}

\* set(e.event_id for e in m.values())
EventIds(m) == {e.event_id : e \in Range(m)}

\* state_ids = ((c_ids | ts_ids) - p_ids) - tc_ids
state_ids(timeline_contains, timeline_start, previous, current) ==
    ((EventIds(current) \cup EventIds(timeline_start)) \ EventIds(previous))
        \ EventIds(timeline_contains)

\* evs = (event_id_to_state[e] for e in state_ids)
StateEvs(timeline_contains, timeline_start, previous, current) ==
    {e \in Range(timeline_contains) \cup Range(previous)
           \cup Range(timeline_start) \cup Range(current) :
        e.event_id \in state_ids(timeline_contains, timeline_start,
                                 previous, current)}

\* The dict comprehension {(e.type, e.state_key): e for e in evs}: a later
\* event of the iteration replaces an earlier one with the same key, and the
\* iteration order of the set state_ids is not defined, so every choice of
\* one event per key is a possible result.
DictByKey(evs) ==
    LET ks == {KeyOf(e) : e \in evs}
    IN  {m \in [ks -> evs] : \A k \in ks : KeyOf(m[k]) = k}

\* The set of dicts _calculate_state may return.
_calculate_state(timeline_contains, timeline_start, previous, current) ==
    DictByKey(StateEvs(timeline_contains, timeline_start, previous, current))

SdInit ==
    \E tc \in StateMaps, ts \in StateMaps, p \in StateMaps, c \in StateMaps :
        sd = [pc |-> "start", timeline_contains |-> tc, timeline_start |-> ts,
              previous |-> p, current |-> c, state |-> <<>>]

CalculateState ==
    /\ sd.pc = "start"
    /\ \E out \in _calculate_state(sd.timeline_contains, sd.timeline_start,
                                   sd.previous, sd.current) :
           sd' = [sd EXCEPT !.pc = "done", !.state = out]
    /\ UNCHANGED <<tl, world, sync, sr, poll>>

InitState ==
    SdInit /\ tl = TlIdle /\ world = WorldIdle /\ sync = SyncIdle /\ sr = SrIdle /\ poll = PollIdle
NextState == CalculateState
SpecState == InitState /\ [][NextState]_vars

\* C1: the event ids of the events _calculate_state returns are exactly
\* ((C \cup TS) \ P) \ TC, whatever the four state maps are.
C1_StateDeltaLaw ==
    sd.pc = "done" =>
        EventIds(sd.state) =
            ((EventIds(sd.current) \cup EventIds(sd.timeline_start))
                 \ EventIds(sd.previous)) \ EventIds(sd.timeline_contains)

(***************************************************************************)
(* Stream tokens, events and the collaborators the timeline loader uses    *)
(***************************************************************************)
\* StreamToken: one position per stream.
StreamToken(room_key, presence_key, typing_key, receipt_key, account_data_key, push_rules_key) ==
    [room_key |-> room_key, presence_key |-> presence_key,
     typing_key |-> typing_key, receipt_key |-> receipt_key,
     account_data_key |-> account_data_key, push_rules_key |-> push_rules_key]

TokenKeys == {"room_key", "presence_key", "typing_key", "receipt_key",
              "account_data_key", "push_rules_key"}

\* StreamToken.copy_and_replace(key, new_value)
copy_and_replace(token, key, new_value) == [token EXCEPT ![key] = new_value]

\* A token that only names a position of the room stream.
RoomToken(room_key) == StreamToken(room_key, 0, 0, 0, 0, 0)

\* An event of the room stream has a stream position pos (its
\* stream_ordering) and a fate ok: "ok" passes every filter, "filtered" is
\* rejected by the filter collection's filter_room_timeline, "hidden" by the
\* visibility filter filter_events_for_client.
filter_room_timeline(events) == SelectSeq(events, LAMBDA e : e.ok # "filtered")
filter_events_for_client(events) == SelectSeq(events, LAMBDA e : e.ok # "hidden")

\* event.internal_metadata.before: the room_key just before the event.
before(e) == e.pos - 1

\* The last n elements of s.
LastN(s, n) == IF n >= Len(s) THEN s ELSE SubSeq(s, Len(s) - n + 1, Len(s))

\* Python's s[-n:] for n >= 0: the last n elements, and the whole list for
\* n = 0, since -0 is 0.
PySliceFromMinus(s, n) == IF n = 0 THEN s ELSE LastN(s, n)

\* store.get_room_events_stream_for_room(room_id, from_key, to_key, limit) on
\* the events room_events of the room, in stream order: the latest limit
\* events with from_key < pos <= to_key, oldest first, and the key just
\* before the first of them (from_key when there is none).
get_room_events_stream_for_room(room_events, limit, from_key, to_key) ==
    LET rows == SelectSeq(room_events, LAMBDA e :
                    /\ (IsNone(from_key) \/ e.pos > Val(from_key))
                    /\ e.pos <= to_key)
        got == LastN(rows, limit)
    IN  [events |-> got,
         end_key |-> IF got # <<>> THEN Some(before(got[1])) ELSE from_key]

(***************************************************************************)
(* _load_filtered_recents                                                  *)
(***************************************************************************)
filtering_factor == 2
min_load_limit == 10
max_repeat == 5

TimelineBatch(events, prev_batch, limited) ==
    [events |-> events, prev_batch |-> prev_batch, limited |-> limited]

\* load_limit = max(timeline_limit * filtering_factor, 10)
load_limit(timeline_limit) == Max(timeline_limit * filtering_factor, min_load_limit)

\* A start that takes a candidate list of timeline_limit events as limited.
LoadStartLimitedAtLimit(timeline_limit, now_token, since_token, recents, newly_joined_room) ==
    LET limited == \/ IsNone(recents)
                   \/ newly_joined_room
                   \/ timeline_limit <= Len(Val(recents))
        filtered == IF ~IsNone(recents) /\ Val(recents) # <<>>
                    THEN filter_events_for_client(filter_room_timeline(Val(recents)))
                    ELSE <<>>
        since_key == IF ~IsNone(since_token) /\ ~newly_joined_room
                     THEN Some(Val(since_token).room_key)
                     ELSE None
        base == [timeline_limit |-> timeline_limit, now_token |-> now_token,
                 newly_joined_room |-> newly_joined_room,
                 limited |-> limited, recents |-> filtered,
                 room_key |-> now_token.room_key,
                 end_key |-> Some(now_token.room_key),
                 since_key |-> since_key, max_repeat |-> max_repeat,
                 queries |-> 0, batch |-> None, pc |-> "loop"]
    IN  IF ~limited
        THEN [base EXCEPT !.pc = "done",
                          !.batch = Some(TimelineBatch(filtered, now_token, FALSE))]
        ELSE base

\* Lines 323-355: the first filtering of the candidate recents, and either the
\* early return of an unlimited batch or the set-up of the back-fill loop.
\* since_token and recents are optional.
LoadStart(timeline_limit, now_token, since_token, recents, newly_joined_room) ==
    LET limited == \/ IsNone(recents)
                   \/ newly_joined_room
                   \/ timeline_limit < Len(Val(recents))
        filtered == IF ~IsNone(recents) /\ Val(recents) # <<>>
                    THEN filter_events_for_client(filter_room_timeline(Val(recents)))
                    ELSE <<>>
        since_key == IF ~IsNone(since_token) /\ ~newly_joined_room
                     THEN Some(Val(since_token).room_key)
                     ELSE None
        base == [timeline_limit |-> timeline_limit, now_token |-> now_token,
                 newly_joined_room |-> newly_joined_room,
                 limited |-> limited, recents |-> filtered,
                 room_key |-> now_token.room_key,
                 end_key |-> Some(now_token.room_key),
                 since_key |-> since_key, max_repeat |-> max_repeat,
                 queries |-> 0, batch |-> None, pc |-> "loop"]
    IN  IF ~limited
        THEN [base EXCEPT !.pc = "done",
                          !.batch = Some(TimelineBatch(filtered, now_token, FALSE))]
        ELSE base

\* A loop condition that does not count the rounds.
LoopGuardWithoutRepeat(L) ==
    L.limited /\ Len(L.recents) < L.timeline_limit

\* while limited and len(recents) < timeline_limit and max_repeat
LoopGuard(L) ==
    L.limited /\ Len(L.recents) < L.timeline_limit /\ L.max_repeat # 0

\* A round of the back-fill loop that puts the loaded events after the
\* ones it has.
LoadLoopAppending(L, room_events) ==
    LET res == get_room_events_stream_for_room(
                   room_events, load_limit(L.timeline_limit) + 1,
                   L.since_key, Val(L.end_key))
        loaded_recents ==
            filter_events_for_client(filter_room_timeline(res.events))
        next == [L EXCEPT !.recents = L.recents \o loaded_recents,
                          !.end_key = res.end_key,
                          !.queries = L.queries + 1]
    IN  IF Len(res.events) <= load_limit(L.timeline_limit)
        THEN [next EXCEPT !.limited = FALSE, !.pc = "trim"]
        ELSE [next EXCEPT !.max_repeat = L.max_repeat - 1]

\* Lines 358-378: one round of the back-fill loop, on the events of the room.
LoadLoop(L, room_events) ==
    LET res == get_room_events_stream_for_room(
                   room_events, load_limit(L.timeline_limit) + 1,
                   L.since_key, Val(L.end_key))
        loaded_recents ==
            filter_events_for_client(filter_room_timeline(res.events))
        next == [L EXCEPT !.recents = loaded_recents \o L.recents,
                          !.end_key = res.end_key,
                          !.queries = L.queries + 1]
    IN  IF Len(res.events) <= load_limit(L.timeline_limit)
        THEN [next EXCEPT !.limited = FALSE, !.pc = "trim"]
        ELSE [next EXCEPT !.max_repeat = L.max_repeat - 1]

\* Lines 380-393: the trim to timeline_limit events and the batch returned.
LoadTrim(L) ==
    LET over == Len(L.recents) > L.timeline_limit
        recents == IF over THEN PySliceFromMinus(L.recents, L.timeline_limit)
                           ELSE L.recents
        limited == IF over THEN TRUE ELSE L.limited
        room_key == IF over THEN before(recents[1]) ELSE L.room_key
        prev_batch_token == copy_and_replace(L.now_token, "room_key", room_key)
    IN  [L EXCEPT !.recents = recents, !.limited = limited,
                  !.room_key = room_key, !.pc = "done",
                  !.batch = Some(TimelineBatch(recents, prev_batch_token,
                                               limited \/ L.newly_joined_room))]

\* The whole call, run to its return, on the events of the room.
RECURSIVE LoadRun(_, _)
LoadRun(L, room_events) ==
    IF L.pc = "done" THEN Val(L.batch)
    ELSE IF L.pc = "loop" /\ LoopGuard(L) THEN LoadRun(LoadLoop(L, room_events), room_events)
    ELSE LoadRun(LoadTrim(L), room_events)

_load_filtered_recents(room_events, timeline_limit, now_token, since_token, recents, newly_joined_room) ==
    LoadRun(LoadStart(timeline_limit, now_token, since_token, recents,
                      newly_joined_room), room_events)

(***************************************************************************)
(* The server's data, as the sync handler reads it through the store, the  *)
(* event sources and the presence handler.                                 *)
(*                                                                         *)
(* A world W is a record:                                                  *)
(*   log       the room stream: the events of every room, in stream order; *)
(*             the event at index i has pos = event_id = i                 *)
(*   acct      the account-data stream: tag changes and account data       *)
(*   typing, receipts   the rooms of the typing and receipt updates        *)
(*   presence  the users of the presence updates                           *)
(*   push      the number of push-rule changes                             *)
(*   ignored   the keys of the m.ignored_user_list account data            *)
(* The syncing user is User; Others are the users met in rooms.            *)
(***************************************************************************)
NumRooms == 2

Rooms == 1..NumRooms
User == "@u"
Others == {"@a", "@b"}

JOIN == "join"
INVITE == "invite"
LEAVE == "leave"
BAN == "ban"
Member == "m.room.member"
Message == "m.room.message"

is_state(e) == e.type = Member

EmptyWorld ==
    [log |-> <<>>, acct |-> <<>>, typing |-> <<>>, receipts |-> <<>>,
     presence |-> <<>>, push |-> 0, ignored |-> {}]

\* The elements of a finite set of numbers, in increasing order.
RECURSIVE SortedSeq(_)
SortedSeq(S) ==
    IF S = {} THEN <<>>
    ELSE LET x == CHOOSE y \in S : \A z \in S : y <= z
         IN  <<x>> \o SortedSeq(S \ {x})

\* The concatenation of f[1], ..., f[n] for a sequence f of sequences.
RECURSIVE Flatten(_)
Flatten(f) == IF f = <<>> THEN <<>> ELSE f[1] \o Flatten(Tail(f))

Last(s) == s[Len(s)]

\* event_sources.get_current_token()
get_current_token(W) ==
    StreamToken(Len(W.log), Len(W.presence), Len(W.typing), Len(W.receipts), Len(W.acct), W.push)

\* StreamToken.is_after(other): does this token hold events other does not?
is_after(token, other) == \E k \in TokenKeys : other[k] < token[k]

RoomEvents(W, room_id) == SelectSeq(W.log, LAMBDA e : e.room_id = room_id)

\* The user's membership events in a room, in stream order.
MembershipEvents(W, room_id) ==
    SelectSeq(W.log, LAMBDA e :
        e.room_id = room_id /\ e.type = Member /\ e.state_key = User)

\* The user's membership in a room: "" when the user was never in it.
MembershipOf(W, room_id) ==
    IF MembershipEvents(W, room_id) = <<>> THEN ""
    ELSE Last(MembershipEvents(W, room_id)).membership

\* store.get_rooms_for_user(user_id): the ids of the rooms the user is joined to.
get_rooms_for_user(W) == {r \in Rooms : MembershipOf(W, r) = JOIN}

\* store.get_rooms_for_user_where_membership_is(user_id, membership_list):
\* the user's latest membership event of every such room.
get_rooms_for_user_where_membership_is(W, membership_list) ==
    LET rs == {r \in Rooms : MembershipOf(W, r) \in membership_list}
        ordered == SortedSeq(rs)
    IN  [i \in 1..Len(ordered) |-> Last(MembershipEvents(W, ordered[i]))]

\* store.get_membership_changes_for_user(user_id, from_key, to_key)
get_membership_changes_for_user(W, from_key, to_key) ==
    SelectSeq(W.log, LAMBDA e :
        /\ e.type = Member /\ e.state_key = User
        /\ from_key < e.pos /\ e.pos <= to_key)

\* store.get_room_events_stream_for_rooms(room_ids, from_key, to_key, limit):
\* for every room with an event in the range, its latest limit events and
\* the key before them.
get_room_events_stream_for_rooms(W, room_ids, from_key, to_key, limit) ==
    LET res(r) == get_room_events_stream_for_room(
                      RoomEvents(W, r), limit, Some(from_key), to_key)
        changed == {r \in room_ids : res(r).events # <<>>}
    IN  [r \in changed |-> res(r)]

\* store.get_users_in_room(room_id)
get_users_in_room(W, room_id) ==
    {u \in Others \cup {User} :
        LET ms == SelectSeq(W.log, LAMBDA e :
                      e.room_id = room_id /\ e.type = Member /\ e.state_key = u)
        IN  ms # <<>> /\ Last(ms).membership = JOIN}

\* The resolved state of a room after the events evs of it: the latest
\* state event of every (type, state_key).
StateAfter(evs) ==
    LET st == SelectSeq(evs, is_state)
        keys == {KeyOf(st[i]) : i \in 1..Len(st)}
    IN  [k \in keys |->
            st[CHOOSE i \in 1..Len(st) :
                   /\ KeyOf(st[i]) = k
                   /\ \A j \in 1..Len(st) : KeyOf(st[j]) = k => j <= i]]

\* store.get_state_for_event(event_id): the state of the room at the event,
\* which does not hold the event itself.
get_state_for_event(W, event) ==
    StateAfter(SelectSeq(W.log, LAMBDA e :
        e.room_id = event.room_id /\ e.pos < event.pos))

\* get_state_after_event(event)
get_state_after_event(W, event) ==
    StateAfter(SelectSeq(W.log, LAMBDA e :
        e.room_id = event.room_id /\ e.pos <= event.pos))

\* get_state_at(room_id, stream_position): the state after the last event
\* of the room at or before the position, {} when there is none.
\* get_state_at that looks at the room's last event, whatever the position.
get_state_at_tip(W, room_id, stream_position) ==
    LET last_events == SelectSeq(W.log, LAMBDA e : e.room_id = room_id)
    IN  IF last_events # <<>> THEN get_state_after_event(W, Last(last_events))
        ELSE <<>>

get_state_at(W, room_id, stream_position) ==
    LET last_events == SelectSeq(W.log, LAMBDA e :
            e.room_id = room_id /\ e.pos <= stream_position.room_key)
    IN  IF last_events # <<>> THEN get_state_after_event(W, Last(last_events))
        ELSE <<>>

\* The tag entries of the account-data stream, each with its position.
TagEntries(W, room_id, upto) ==
    {i \in 1..Len(W.acct) :
        i <= upto /\ W.acct[i].kind = "tag" /\ W.acct[i].room_id = room_id}

\* Whether the room carried a tag at a position of the account-data stream.
TaggedAt(W, room_id, upto) ==
    LET es == TagEntries(W, room_id, upto)
    IN  es # {} /\ W.acct[CHOOSE i \in es : \A j \in es : j <= i].tagged

\* store.get_tags_for_user(user_id): the rooms that carry a tag.
get_tags_for_user(W) == {r \in Rooms : TaggedAt(W, r, Len(W.acct))}

\* store.get_updated_tags(user_id, stream_id): the rooms whose tags changed
\* after stream_id.
get_updated_tags(W, stream_id) ==
    {r \in Rooms : TagEntries(W, r, Len(W.acct)) # TagEntries(W, r, stream_id)}

TAG_CHANGE_NEWLY_TAGGED == "newly_tagged"
TAG_CHANGE_ALL_REMOVED == "all_removed"

\* store.get_room_tags_changed(user_id, stream_id): for every room whose
\* tags changed after stream_id, what the change amounts to.
get_room_tags_changed(W, stream_id) ==
    [r \in get_updated_tags(W, stream_id) |->
        IF ~TaggedAt(W, r, stream_id) /\ TaggedAt(W, r, Len(W.acct))
        THEN TAG_CHANGE_NEWLY_TAGGED
        ELSE IF TaggedAt(W, r, stream_id) /\ ~TaggedAt(W, r, Len(W.acct))
        THEN TAG_CHANGE_ALL_REMOVED
        ELSE "changed"]

\* store.get_last_event_id_ts_for_room(room_id, room_key): the event id and
\* origin_server_ts of the last event of the room at the key, if any.
get_last_event_id_ts_for_room(W, room_id, room_key) ==
    LET evs == SelectSeq(W.log, LAMBDA e :
                   e.room_id = room_id /\ e.pos <= room_key)
    IN  IF evs = <<>> THEN None
        ELSE Some([event_id |-> Last(evs).event_id,
                   origin_server_ts |-> Last(evs).origin_server_ts])

(***************************************************************************)
(* SpecTimeline: one call of _load_filtered_recents on one room.           *)
(*                                                                         *)
(* The room holds events at the positions 1..room_len.  Its vis_old oldest *)
(* and vis_new newest events pass the filters; the ones between have the   *)
(* fate hide.  The call is made as _generate_room_entry makes it: the      *)
(* candidate recents, when given, are the n events that follow upto_token, *)
(* and since_token, when given, is not after upto_token.                   *)
(***************************************************************************)
MaxTimelineLimit == 2
MaxRoomLen == 56
MaxVisEdge == 1
MaxSinceGap == 1

TimelineEvent(p, room_len, vis_old, vis_new, hide) ==
    [pos |-> p,
     ok |-> IF p <= vis_old \/ p > room_len - vis_new THEN "ok" ELSE hide]

TimelineRoom(room_len, vis_old, vis_new, hide) ==
    [p \in 1..room_len |-> TimelineEvent(p, room_len, vis_old, vis_new, hide)]

TlRoom == TimelineRoom(tl.room_len, tl.vis_old, tl.vis_new, tl.hide)

TlInit ==
    \E timeline_limit \in 0..MaxTimelineLimit, room_len \in 0..MaxRoomLen,
       vis_old \in 0..MaxVisEdge, vis_new \in 0..MaxVisEdge,
       hide \in {"filtered", "hidden"}, newly \in BOOLEAN,
       given \in BOOLEAN, n \in 0..(MaxTimelineLimit + 1) :
        /\ n <= room_len
        /\ n <= timeline_limit + 1
        /\ ~given => n = 0
        /\ \E since \in {None} \cup {Some(k) : k \in 0..(room_len - n)} :
            /\ ~IsNone(since) =>
                   Val(since) = 0 \/ room_len - n - Val(since) <= MaxSinceGap
            /\ tl = [pc |-> "start", room_len |-> room_len, vis_old |-> vis_old,
                     vis_new |-> vis_new, hide |-> hide,
                     timeline_limit |-> timeline_limit,
                     upto |-> room_len - n, given |-> given,
                     since |-> since, newly |-> newly, L |-> None]

\* The call's arguments.
TlNowToken == RoomToken(tl.upto)
TlSinceToken == IF IsNone(tl.since) THEN None ELSE Some(RoomToken(Val(tl.since)))
TlRecents ==
    IF tl.given THEN Some(SubSeq(TlRoom, tl.upto + 1, tl.room_len)) ELSE None

TlStart ==
    /\ tl.pc = "start"
    /\ LET L == LoadStart(tl.timeline_limit, TlNowToken, TlSinceToken,
                          TlRecents, tl.newly)
       IN  tl' = [tl EXCEPT !.pc = L.pc, !.L = Some(L)]
    /\ UNCHANGED <<sd, world, sync, sr, poll>>

TlLoop ==
    /\ tl.pc = "loop"
    /\ LoopGuard(Val(tl.L))
    /\ LET L == LoadLoop(Val(tl.L), TlRoom)
       IN  tl' = [tl EXCEPT !.pc = L.pc, !.L = Some(L)]
    /\ UNCHANGED <<sd, world, sync, sr, poll>>

TlTrim ==
    /\ \/ tl.pc = "trim"
       \/ tl.pc = "loop" /\ ~LoopGuard(Val(tl.L))
    /\ LET L == LoadTrim(Val(tl.L))
       IN  tl' = [tl EXCEPT !.pc = L.pc, !.L = Some(L)]
    /\ UNCHANGED <<sd, world, sync, sr, poll>>

InitTimeline ==
    TlInit /\ sd = SdIdle /\ world = WorldIdle /\ sync = SyncIdle /\ sr = SrIdle /\ poll = PollIdle
NextTimeline == TlStart \/ TlLoop \/ TlTrim
SpecTimeline == InitTimeline /\ [][NextTimeline]_vars

TlDone == tl.pc = "done"
TlBatch == Val(Val(tl.L).batch)

\* C9: a batch returned with limited = true holds at most timeline_limit
\* events, for every timeline_limit >= 0.
C9_LimitedWithinLimit ==
    (TlDone /\ TlBatch.limited) => Len(TlBatch.events) <= tl.timeline_limit

\* C10: a batch returned with limited = true and at least one event has a
\* prev_batch whose room_key is strictly before the first event of the batch.
C10_PrevBatchBeforeFirst ==
    (TlDone /\ TlBatch.limited /\ TlBatch.events # <<>>) =>
        TlBatch.prev_batch.room_key < TlBatch.events[1].pos

\* C12: the events of a returned batch are in strictly increasing stream
\* order, none repeated, whatever the number of back-fill rounds.
C12_BatchStrictlyIncreasing ==
    TlDone =>
        \A i, j \in 1..Len(TlBatch.events) :
            i < j => TlBatch.events[i].pos < TlBatch.events[j].pos

\* A batch of two rounds of back-fill that holds a loaded event before a
\* candidate one.
C12_Witness ==
    /\ TlDone /\ tl.given
    /\ Val(tl.L).queries >= 2
    /\ Len(TlBatch.events) = 2
    /\ TlBatch.events[1].pos <= tl.upto
    /\ TlBatch.events[2].pos > tl.upto

\* C25: given candidate recents, at most timeline_limit of them, for a room
\* that is not newly joined, the call makes no query and returns the
\* candidates that pass the two filters, with limited = false and
\* prev_batch = now_token.
C25_UnlimitedBatch ==
    (/\ tl.pc # "start" /\ tl.given /\ ~tl.newly
     /\ Len(Val(TlRecents)) <= tl.timeline_limit) =>
        /\ TlDone
        /\ Val(tl.L).queries = 0
        /\ TlBatch = TimelineBatch(
               filter_events_for_client(filter_room_timeline(Val(TlRecents))),
               TlNowToken, FALSE)

\* A call given timeline_limit = 2 candidates, one of which is rejected: it
\* returned one event.
C25_Witness ==
    /\ TlDone /\ tl.given /\ ~tl.newly
    /\ tl.timeline_limit = 2 /\ Len(Val(TlRecents)) = 2
    /\ Len(TlBatch.events) = 1
    /\ tl.upto > 0

\* The calls for a room the user did not newly join and none of whose
\* oldest events passes the visibility filter, where every step of a call
\* that has not returned is taken in the end.
InitBackfill == InitTimeline /\ tl.vis_old = 0 /\ tl.hide = "hidden" /\ ~tl.newly
SpecBackfill == InitBackfill /\ [][NextTimeline]_vars /\ WF_vars(NextTimeline)

\* The step is a back-fill query of the loop.
TlQuery ==
    /\ tl.pc = "loop" /\ ~IsNone(tl'.L)
    /\ Val(tl'.L).queries = Val(tl.L).queries + 1

\* What the query of the next round returns.
TlNextQuery ==
    get_room_events_stream_for_room(
        TlRoom, load_limit(tl.timeline_limit) + 1, Val(tl.L).since_key,
        Val(Val(tl.L).end_key))

\* C24: a call of _load_filtered_recents makes at most 5 back-fill queries
\* and returns; it makes no query once the filtered batch has timeline_limit
\* events, and a query that returns fewer than load_limit events is the
\* last and sets limited to false.
C24_BackfillBounded ==
    /\ [](~IsNone(tl.L) => Val(tl.L).queries <= 5)
    /\ [][TlQuery =>
             /\ Len(Val(tl.L).recents) < tl.timeline_limit
             /\ (Len(TlNextQuery.events) < Max(2 * tl.timeline_limit, 10) =>
                     /\ ~Val(tl'.L).limited
                     /\ tl'.pc = "trim")]_vars
    /\ [][tl.pc = "trim" => tl'.pc = "done"]_vars
    /\ <>TlDone

\* A call that returned after 5 queries, none of which reached the start of
\* the room.
C24_Witness ==
    /\ TlDone
    /\ Val(tl.L).queries = 5
    /\ tl.room_len > 5 * Max(2 * tl.timeline_limit, 10)

(***************************************************************************)
(* The arguments and results of a sync                                     *)
(*                                                                         *)
(* sync_config  [timeline_limit, include_leave, pagination_config]: the    *)
(*              filter collection's timeline limit and include_leave flag, *)
(*              and the optional SyncPaginationConfig                      *)
(* batch_token  optional SyncNextBatchToken                                *)
(* extras       [paginate_limit, peek]: extras.paginate.limit (0 when      *)
(*              absent) and extras.peek, a function from the requested     *)
(*              room ids to their optional since token                     *)
(* choices      what the code leaves to the runtime: order, the iteration  *)
(*              order of a dict of rooms (a sequence holding every room    *)
(*              once), and prefer_last, which of two state events of one   *)
(*              key a dict comprehension over a set keeps                  *)
(***************************************************************************)
SYNC_PAGINATION_TAGS_INCLUDE_ALL == "include_all"
SYNC_PAGINATION_TAGS_IGNORE == "ignore"
SYNC_PAGINATION_ORDER_TS == "o"

SyncPaginationConfig(order, limit, tags) ==
    [order |-> order, limit |-> limit, tags |-> tags]

SyncPaginationState(order, value, limit, tags) ==
    [order |-> order, value |-> value, limit |-> limit, tags |-> tags]

SyncNextBatchToken(stream_token, pagination_state) ==
    [stream_token |-> stream_token, pagination_state |-> pagination_state]

InvitedSyncResult(room_id, invite) == [room_id |-> room_id, invite |-> invite]

ErrorSyncResult(room_id, errcode) == [room_id |-> room_id, errcode |-> errcode]

CANNOT_PEEK == "M_CANNOT_PEEK"

RoomSyncResultBuilder(room_id, rtype, events, newly_joined, full_state, since_token, upto_token) ==
    [room_id |-> room_id, rtype |-> rtype, events |-> events,
     newly_joined |-> newly_joined, full_state |-> full_state,
     since_token |-> since_token, upto_token |-> upto_token,
     always_include |-> FALSE, would_require_resync |-> FALSE,
     synced |-> TRUE]

\* A slice s[:n] that stops one element early.
PySliceToShort(s, n) ==
    LET hi == IF n >= 0 THEN Min(n, Len(s)) ELSE Max(Len(s) + n, 0)
    IN  SubSeq(s, 1, hi - 1)

\* Python's s[:n] and s[n:], for any integer n.
PySliceTo(s, n) ==
    LET hi == IF n >= 0 THEN Min(n, Len(s)) ELSE Max(Len(s) + n, 0)
    IN  SubSeq(s, 1, hi)
PySliceFrom(s, n) ==
    LET lo == IF n >= 0 THEN Min(n, Len(s)) ELSE Max(Len(s) + n, 0)
    IN  SubSeq(s, lo + 1, Len(s))

\* The account data the filters reject: filter_account_data and
\* filter_room_account_data drop the entries of this type and keep the rest.
RejectedType == "org.rejected"
filter_account_data(types) == types \ {RejectedType}
filter_room_account_data(events) == SelectSeq(events, LAMBDA t : t # RejectedType)

\* The filter collection accepts every ephemeral event, presence event and
\* state event.
filter_room_ephemeral(ephemeral) == ephemeral
filter_presence(presence) == presence
filter_room_state(state) == state

(***************************************************************************)
(* ephemeral_by_room                                                       *)
(***************************************************************************)
\* typing_source.get_new_events(from_key, room_ids): the rooms among
\* room_ids with a typing update after from_key, and the stream's position.
typing_get_new_events(W, from_key, room_ids) ==
    [events |-> {r \in room_ids :
                    \E i \in 1..Len(W.typing) : i > from_key /\ W.typing[i] = r},
     key |-> Len(W.typing)]

\* receipt_source.get_new_events(from_key, room_ids)
receipt_get_new_events(W, from_key, room_ids) ==
    [events |-> {r \in room_ids :
                    \E i \in 1..Len(W.receipts) : i > from_key /\ W.receipts[i] = r},
     key |-> Len(W.receipts)]

\* Returns now_token with typing_key and receipt_key replaced by the keys
\* the sources returned, and for every room its ephemeral events.
\* An ephemeral_by_room that, given a since_token, takes the typing stream
\* to be at its start.
ephemeral_by_room_at_start(W, now_token, since_token) ==
    [now_token |-> copy_and_replace(
                       copy_and_replace(now_token, "typing_key",
                           IF IsNone(since_token) THEN Len(W.typing) ELSE 0),
                       "receipt_key", Len(W.receipts)),
     ephemeral_by_room |-> <<>>]

ephemeral_by_room(W, now_token, since_token) ==
    LET typing_key == IF ~IsNone(since_token) THEN Val(since_token).typing_key ELSE 0
        room_ids == get_rooms_for_user(W)
        typing == typing_get_new_events(W, typing_key, room_ids)
        now1 == copy_and_replace(now_token, "typing_key", typing.key)
        receipt_key == IF ~IsNone(since_token) THEN Val(since_token).receipt_key ELSE 0
        receipts == receipt_get_new_events(W, receipt_key, room_ids)
        now2 == copy_and_replace(now1, "receipt_key", receipts.key)
    IN  [now_token |-> now2,
         ephemeral_by_room |->
            [r \in typing.events \cup receipts.events |->
                (IF r \in typing.events THEN <<"m.typing">> ELSE <<>>)
                \o (IF r \in receipts.events THEN <<"m.receipt">> ELSE <<>>)]]

(***************************************************************************)
(* _generate_sync_entry_for_account_data                                   *)
(***************************************************************************)
\* The positions of the account-data entries after stream_id that are global
\* (room_id = 0) or of one room.
AccountDataSince(W, kind, room_id, stream_id) ==
    {W.acct[i].type : i \in {j \in 1..Len(W.acct) :
        /\ j > stream_id /\ W.acct[j].kind = kind /\ W.acct[j].room_id = room_id}}

\* The rest of a dict of account data by room: the rooms that have some.
AccountDataByRoom(W, stream_id) ==
    LET rs == {r \in Rooms : AccountDataSince(W, "room", r, stream_id) # {}}
    IN  [r \in rs |-> AccountDataSince(W, "room", r, stream_id)]

\* The account data of the user as a set of types, and the per-room account
\* data.  m.ignored_user_list was written before every cursor.
_generate_sync_entry_for_account_data(W, since_token, full_state) ==
    IF ~IsNone(since_token) /\ ~full_state
    THEN LET updated == AccountDataSince(W, "global", 0, Val(since_token).account_data_key)
             push_rules_changed == W.push > Val(since_token).push_rules_key
         IN  [account_data |-> filter_account_data(
                  updated \cup (IF push_rules_changed THEN {"m.push_rules"} ELSE {})),
              account_data_by_room |->
                  AccountDataByRoom(W, Val(since_token).account_data_key)]
    ELSE [account_data |-> filter_account_data(
              AccountDataSince(W, "global", 0, 0)
                  \cup (IF W.ignored # {} THEN {"m.ignored_user_list"} ELSE {})
                  \cup {"m.push_rules"}),
          account_data_by_room |-> AccountDataByRoom(W, 0)]

(***************************************************************************)
(* _get_rooms_changed and _get_all_rooms                                   *)
(***************************************************************************)
\* One round of the loop over mem_change_events_by_room_id (lines 964-1018):
\* whether the room is newly joined, and the invite and the archived plan it
\* adds.  event is the variable the loop of lines 958-959 leaves behind: the
\* last membership change of any room.
ChangedRoom(W, room_id, rooms_changed, joined_room_ids, since_token, ignored_users) ==
    LET events == SelectSeq(rooms_changed, LAMBDA e : e.room_id = room_id)
        event == Last(rooms_changed)
        non_joins == SelectSeq(events, LAMBDA e : e.membership # JOIN)
        has_join == Len(non_joins) # Len(events)
        old_state == get_state_at(W, room_id, since_token)
        old_is_join == /\ <<Member, User>> \in DOMAIN old_state
                       /\ old_state[<<Member, User>>].membership = JOIN
        newly == (room_id \in joined_room_ids \/ has_join) /\ ~old_is_join
        should_invite == Last(non_joins).membership = INVITE
        leave_events == SelectSeq(non_joins, LAMBDA e : e.membership \in {LEAVE, BAN})
        leave_token == copy_and_replace(since_token, "room_key", Last(leave_events).pos)
        none == [newly |-> newly, invited |-> <<>>, room_entries |-> <<>>]
    IN  IF room_id \in joined_room_ids \/ non_joins = <<>> THEN none
        ELSE [none EXCEPT
                !.invited =
                    IF should_invite /\ event.sender \notin ignored_users
                    THEN <<InvitedSyncResult(room_id, Last(non_joins))>>
                    ELSE <<>>,
                !.room_entries =
                    IF leave_events # <<>> /\ ~is_after(since_token, leave_token)
                    THEN <<RoomSyncResultBuilder(room_id, "archived", None, newly,
                                                 FALSE, Some(since_token), leave_token)>>
                    ELSE <<>>]

\* The plan of a room the user is joined to (lines 1032-1058).
JoinedRoom(room_id, room_to_events, newly_joined_rooms, since_token, now_token) ==
    IF room_id \in DOMAIN room_to_events
    THEN RoomSyncResultBuilder(
             room_id, "joined", Some(room_to_events[room_id].events),
             room_id \in newly_joined_rooms, FALSE,
             IF room_id \in newly_joined_rooms THEN None ELSE Some(since_token),
             copy_and_replace(now_token, "room_key",
                              Val(room_to_events[room_id].end_key)))
    ELSE RoomSyncResultBuilder(
             room_id, "joined", Some(<<>>), room_id \in newly_joined_rooms,
             FALSE, Some(since_token), since_token)

_get_rooms_changed(W, since_token, now_token, timeline_limit, ignored_users) ==
    LET joined_room_ids == get_rooms_for_user(W)
        rooms_changed == get_membership_changes_for_user(
                             W, since_token.room_key, now_token.room_key)
        changed_ids == SortedSeq({rooms_changed[i].room_id : i \in 1..Len(rooms_changed)})
        changed == [i \in 1..Len(changed_ids) |->
                       ChangedRoom(W, changed_ids[i], rooms_changed,
                                   joined_room_ids, since_token, ignored_users)]
        newly_joined_rooms ==
            {changed_ids[i] : i \in {j \in 1..Len(changed_ids) : changed[j].newly}}
        room_to_events == get_room_events_stream_for_rooms(
                              W, joined_room_ids, since_token.room_key,
                              now_token.room_key, timeline_limit + 1)
        joined_ids == SortedSeq(joined_room_ids)
    IN  [room_entries |->
            Flatten([i \in 1..Len(changed_ids) |-> changed[i].room_entries])
            \o [i \in 1..Len(joined_ids) |->
                   JoinedRoom(joined_ids[i], room_to_events, newly_joined_rooms,
                              since_token, now_token)],
         invited |-> Flatten([i \in 1..Len(changed_ids) |-> changed[i].invited]),
         newly_joined_rooms |-> newly_joined_rooms]

\* The loop over room_list without its last branch: no plan for a room the
\* user left or was banned from.
AllRoomsEntryWithoutArchived(event, now_token, include_leave, ignored_users) ==
    LET none == [invited |-> <<>>, room_entries |-> <<>>]
    IN  IF event.membership = JOIN
        THEN [none EXCEPT !.room_entries =
                 <<RoomSyncResultBuilder(event.room_id, "joined", None, FALSE,
                                         TRUE, None, now_token)>>]
        ELSE IF event.membership = INVITE /\ event.sender \notin ignored_users
        THEN [none EXCEPT !.invited = <<InvitedSyncResult(event.room_id, event)>>]
        ELSE none

\* The loop over room_list with the test of line 1115 left out: a leave is
\* dropped whoever sent it.
AllRoomsEntryWithoutSender(event, now_token, include_leave, ignored_users) ==
    LET none == [invited |-> <<>>, room_entries |-> <<>>]
    IN  IF event.membership = JOIN
        THEN [none EXCEPT !.room_entries =
                 <<RoomSyncResultBuilder(event.room_id, "joined", None, FALSE,
                                         TRUE, None, now_token)>>]
        ELSE IF event.membership = INVITE
        THEN IF event.sender \in ignored_users THEN none
             ELSE [none EXCEPT !.invited = <<InvitedSyncResult(event.room_id, event)>>]
        ELSE IF ~include_leave /\ event.membership = LEAVE
        THEN none
        ELSE [none EXCEPT !.room_entries =
                 <<RoomSyncResultBuilder(
                       event.room_id, "archived", None, FALSE, TRUE, None,
                       copy_and_replace(now_token, "room_key", event.pos))>>]

\* One round of the loop over room_list (lines 1092-1129).
AllRoomsEntry(event, now_token, include_leave, ignored_users) ==
    LET none == [invited |-> <<>>, room_entries |-> <<>>]
    IN  IF event.membership = JOIN
        THEN [none EXCEPT !.room_entries =
                 <<RoomSyncResultBuilder(event.room_id, "joined", None, FALSE,
                                         TRUE, None, now_token)>>]
        ELSE IF event.membership = INVITE
        THEN IF event.sender \in ignored_users THEN none
             ELSE [none EXCEPT !.invited = <<InvitedSyncResult(event.room_id, event)>>]
        ELSE IF ~include_leave /\ event.membership = LEAVE /\ User = event.sender
        THEN none
        ELSE [none EXCEPT !.room_entries =
                 <<RoomSyncResultBuilder(
                       event.room_id, "archived", None, FALSE, TRUE, None,
                       copy_and_replace(now_token, "room_key", event.pos))>>]

_get_all_rooms(W, now_token, include_leave, ignored_users) ==
    LET room_list == get_rooms_for_user_where_membership_is(
                         W, {INVITE, JOIN, LEAVE, BAN})
        each == [i \in 1..Len(room_list) |->
                    AllRoomsEntry(room_list[i], now_token, include_leave, ignored_users)]
    IN  [room_entries |-> Flatten([i \in 1..Len(room_list) |-> each[i].room_entries]),
         invited |-> Flatten([i \in 1..Len(room_list) |-> each[i].invited]),
         newly_joined_rooms |-> {}]

(***************************************************************************)
(* _get_room_timestamps_at_token and _get_rooms_that_need_full_state       *)
(***************************************************************************)
\* sorted(items, key=lambda e: -ts(e)): Python's sort is stable, so items of
\* one timestamp keep their order.
RECURSIVE InsertByTs(_, _)
InsertByTs(sorted, x) ==
    IF sorted = <<>> THEN <<x>>
    ELSE IF sorted[1].origin_server_ts < x.origin_server_ts
         THEN <<x>> \o sorted
         ELSE <<sorted[1]>> \o InsertByTs(Tail(sorted), x)

RECURSIVE SortByTsDesc(_)
SortByTsDesc(items) ==
    IF items = <<>> THEN <<>>
    ELSE InsertByTs(SortByTsDesc(SubSeq(items, 1, Len(items) - 1)), Last(items))

\* The items of a dict of rooms, in the iteration order the runtime gives it.
DictItems(room_ids, order) == SelectSeq(order, LAMBDA r : r \in room_ids)

\* The entry of a room in room_to_entries (lines 1260-1268): the room's last
\* event at the token, or a timestamp of 0 and no event id (event_id = 0).
LastTsEntry(W, room_id, token) ==
    LET entry == get_last_event_id_ts_for_room(W, room_id, token.room_key)
    IN  IF ~IsNone(entry)
        THEN [room_id |-> room_id, event_id |-> Val(entry).event_id,
              origin_server_ts |-> Val(entry).origin_server_ts]
        ELSE [room_id |-> room_id, event_id |-> 0, origin_server_ts |-> 0]

\* How many rounds of the fetch loop are followed before the call is taken
\* not to return.
MaxFetchRounds == 3

\* The loop of lines 1285-1310.  to_return is a set of [room_id, ts].
RECURSIVE FetchLoop(_, _, _, _, _)
FetchLoop(W, limit, to_return, queued_events, rounds) ==
    IF ~(Cardinality({x.room_id : x \in to_return}) < limit /\ Len(queued_events) > 0)
    THEN [status |-> "ok", map |-> to_return]
    ELSE IF rounds = 0 THEN [status |-> "hang", map |-> {}]
    ELSE
    LET n == Cardinality({x.room_id : x \in to_return})
        to_fetch == PySliceTo(queued_events, limit - n)
        event_to_q == SelectSeq(to_fetch, LAMBDA q : q.event_id # 0)
        event_map == [i \in 1..Len(event_to_q) |-> W.log[event_to_q[i].event_id]]
        recents == filter_events_for_client(filter_room_timeline(event_map))
        recent_ids == {recents[i].event_id : i \in 1..Len(recents)}
        fetched == {[room_id |-> recents[i].room_id, ts |-> recents[i].origin_server_ts]
                        : i \in 1..Len(recents)}
        updated == {x \in to_return : x.room_id \notin {y.room_id : y \in fetched}}
                       \cup fetched
        rejected_ids == SortedSeq({event_to_q[i].event_id : i \in 1..Len(event_to_q)}
                                      \ recent_ids)
        rejected == [i \in 1..Len(rejected_ids) |->
                        event_to_q[CHOOSE j \in 1..Len(event_to_q) :
                                       event_to_q[j].event_id = rejected_ids[i]]]
    IN  FetchLoop(W, limit, updated, SortByTsDesc(queued_events \o rejected), rounds - 1)

\* Returns [status, map]: the map as a set of [room_id, ts], and status
\* "hang" when the fetch loop does not end.
_get_room_timestamps_at_token(W, room_ids, order, token, limit) ==
    LET items == DictItems(room_ids, order)
        room_to_entries == [i \in 1..Len(items) |-> LastTsEntry(W, items[i], token)]
    IN  IF Len(room_to_entries) <= limit
        THEN [status |-> "ok",
              map |-> {[room_id |-> room_to_entries[i].room_id,
                        ts |-> room_to_entries[i].origin_server_ts]
                           : i \in 1..Len(room_to_entries)}]
        ELSE FetchLoop(W, limit, {}, SortByTsDesc(room_to_entries), MaxFetchRounds)

\* The rooms whose last event at since_token is older than the page edge.
_get_rooms_that_need_full_state(W, room_ids, order, since_token, pagination_state) ==
    LET start_ts == _get_room_timestamps_at_token(
                        W, room_ids, order, since_token, Cardinality(room_ids))
    IN  {x.room_id : x \in {y \in start_ts.map : y.ts < pagination_state.value}}

(***************************************************************************)
(* compute_state_delta                                                     *)
(***************************************************************************)
\* A dict (e.type, e.state_key) -> e built from a sequence of events: a
\* later event replaces an earlier one of the same key.
TimelineState(events) == StateAfter(events)

\* One of the dicts _calculate_state may return: of the events of one key,
\* the one with the greatest event id when prefer_last, else the least.
CalculateStateWith(prefer_last, timeline_contains, timeline_start, previous, current) ==
    CHOOSE m \in _calculate_state(timeline_contains, timeline_start, previous, current) :
        \A k \in DOMAIN m :
            \A e \in StateEvs(timeline_contains, timeline_start, previous, current) :
                KeyOf(e) = k =>
                    IF prefer_last THEN e.event_id <= m[k].event_id
                                   ELSE e.event_id >= m[k].event_id

\* Returns [status, state]: status is "error" where the code raises, on
\* batch.events[-1] of an empty batch or on the room_key of a since_token
\* that is None.
compute_state_delta(W, room_id, batch, since_token, now_token, full_state, prefer_last) ==
    IF full_state
    THEN LET current_state ==
                 IF batch.events # <<>>
                 THEN get_state_for_event(W, Last(batch.events))
                 ELSE get_state_at(W, room_id, now_token)
             state == IF batch.events # <<>>
                      THEN get_state_for_event(W, batch.events[1])
                      ELSE current_state
         IN  [status |-> "ok",
              state |-> filter_room_state(CalculateStateWith(
                            prefer_last, TimelineState(batch.events), state,
                            <<>>, current_state))]
    ELSE IF batch.limited
    THEN IF IsNone(since_token) \/ batch.events = <<>>
         THEN [status |-> "error", state |-> <<>>]
         ELSE [status |-> "ok",
               state |-> filter_room_state(CalculateStateWith(
                             prefer_last, TimelineState(batch.events),
                             get_state_for_event(W, batch.events[1]),
                             get_state_at(W, room_id, Val(since_token)),
                             get_state_for_event(W, Last(batch.events))))]
    ELSE [status |-> "ok", state |-> <<>>]

\* The account-data types of a set, as the list a dict's items() gives.
SortedSeqOfTypes(types) ==
    (IF "m.a" \in types THEN <<"m.a">> ELSE <<>>)
        \o (IF RejectedType \in types THEN <<RejectedType>> ELSE <<>>)

\* JoinedSyncResult.__nonzero__ and ArchivedSyncResult.__nonzero__
RoomResultNonzero(room_sync) ==
    \/ room_sync.timeline.events # <<>>
    \/ DOMAIN room_sync.state # {}
    \/ room_sync.ephemeral # <<>>
    \/ room_sync.account_data # <<>>

(***************************************************************************)
(* _generate_room_entry                                                    *)
(***************************************************************************)
\* ephemeral is a sequence of ephemeral events, tags is None or Some(whether
\* the room carries a tag), account_data is a set of account-data types.
\* Returns [status, result]: result is None when the room is left out of
\* the response, and status is "error" when compute_state_delta raises.
ReloadForResyncKeepingBatch(W, timeline_limit, room_builder, first_batch) == first_batch

\* Lines 1205-1213: the timeline of a plan that would require a resync is
\* loaded again, from upto_token, without since_token and without recents.
ReloadForResync(W, timeline_limit, room_builder, first_batch) ==
    IF room_builder.would_require_resync
    THEN _load_filtered_recents(RoomEvents(W, room_builder.room_id), timeline_limit,
             room_builder.upto_token, None, None, room_builder.newly_joined)
    ELSE first_batch

_generate_room_entry(W, builder_full_state, now_token, timeline_limit, room_builder, ephemeral, tags, account_data, prefer_last) ==
    LET newly_joined == room_builder.newly_joined
        always_include ==
            newly_joined \/ builder_full_state \/ room_builder.always_include
        full_state ==
            \/ room_builder.full_state \/ newly_joined
            \/ builder_full_state \/ room_builder.would_require_resync
        events == room_builder.events
        room_id == room_builder.room_id
        upto_token == room_builder.upto_token
        account_data_events ==
            (IF ~IsNone(tags) THEN <<"m.tag">> ELSE <<>>)
                \o SortedSeqOfTypes(account_data)
        filtered_account_data == filter_room_account_data(account_data_events)
        filtered_ephemeral == filter_room_ephemeral(ephemeral)
        since_token == IF room_builder.would_require_resync THEN None
                       ELSE room_builder.since_token
        skip == [status |-> "ok", result |-> None]
        room_sync(batch, state) ==
            IF room_builder.rtype = "joined"
            THEN [kind |-> "joined", room_id |-> room_id, timeline |-> batch,
                  state |-> state, ephemeral |-> filtered_ephemeral,
                  account_data |-> account_data_events,
                  synced |-> room_builder.synced, full_state |-> full_state]
            ELSE [kind |-> "archived", room_id |-> room_id, timeline |-> batch,
                  state |-> state, ephemeral |-> <<>>,
                  account_data |-> filtered_account_data,
                  synced |-> room_builder.synced, full_state |-> full_state]
    IN  IF /\ ~(always_include \/ account_data # {} \/ ephemeral # <<>>)
           /\ events = Some(<<>>) /\ IsNone(tags)
        THEN skip
        ELSE
        Bind(_load_filtered_recents(RoomEvents(W, room_id), timeline_limit,
                 upto_token, room_builder.since_token, events, newly_joined),
             LAMBDA first_batch :
        IF ~(\/ always_include \/ first_batch.events # <<>>
             \/ filtered_account_data # <<>> \/ filtered_ephemeral # <<>>)
        THEN skip
        ELSE
        Bind(ReloadForResync(W, timeline_limit, room_builder, first_batch),
             LAMBDA batch :
        Bind(compute_state_delta(W, room_id, batch, since_token, now_token,
                                 full_state, prefer_last),
             LAMBDA delta :
        IF delta.status = "error" THEN [status |-> "error", result |-> None]
        ELSE IF RoomResultNonzero(room_sync(batch, delta.state)) \/ always_include
        THEN [status |-> "ok", result |-> Some(room_sync(batch, delta.state))]
        ELSE skip)))

(***************************************************************************)
(* _generate_sync_entry_for_rooms                                          *)
(***************************************************************************)
\* An error for every room of extras.peek, planned or not.
PeekErrorsForEveryPeek(include_map, room_entries) ==
    LET ids == SortedSeq(DOMAIN include_map)
    IN  [i \in 1..Len(ids) |-> ErrorSyncResult(ids[i], CANNOT_PEEK)]

\* Lines 828-833: an error for every room of extras.peek that has no plan.
PeekErrors(include_map, room_entries) ==
    LET ids == SortedSeq(DOMAIN include_map
                   \ {room_entries[i].room_id : i \in 1..Len(room_entries)})
    IN  [i \in 1..Len(ids) |-> ErrorSyncResult(ids[i], CANNOT_PEEK)]

\* Lines 786-819: the rewrite of the plan of a room that misses state.
\* tag_changes is a function from the rooms whose tags changed.
RewriteMissingWithoutContinue(r, include_all_tags, tag_changes, all_tags, include_map) ==
    LET change == IF r.room_id \in DOMAIN tag_changes
                  THEN tag_changes[r.room_id] ELSE "None"
        t == IF include_all_tags /\ change = TAG_CHANGE_NEWLY_TAGGED
             THEN [r EXCEPT !.since_token = None, !.always_include = TRUE,
                            !.full_state = TRUE, !.would_require_resync = TRUE,
                            !.events = None, !.synced = TRUE]
             ELSE IF include_all_tags /\ change = TAG_CHANGE_ALL_REMOVED
             THEN [r EXCEPT !.always_include = TRUE, !.synced = FALSE]
             ELSE IF include_all_tags /\ r.room_id \in all_tags
             THEN [r EXCEPT !.always_include = TRUE]
             ELSE r
    IN  IF r.room_id \in DOMAIN include_map
        THEN IF ~IsNone(include_map[r.room_id])
             THEN [t EXCEPT !.since_token = include_map[r.room_id]]
             ELSE [t EXCEPT !.since_token = None, !.always_include = TRUE,
                            !.full_state = TRUE, !.would_require_resync = TRUE,
                            !.events = None, !.synced = FALSE]
        ELSE [t EXCEPT !.full_state = TRUE, !.would_require_resync = TRUE]

RewriteMissing(r, include_all_tags, tag_changes, all_tags, include_map) ==
    LET change == IF r.room_id \in DOMAIN tag_changes
                  THEN tag_changes[r.room_id] ELSE "None"
    IN  IF include_all_tags /\ change = TAG_CHANGE_NEWLY_TAGGED
        THEN [r EXCEPT !.since_token = None, !.always_include = TRUE,
                       !.full_state = TRUE, !.would_require_resync = TRUE,
                       !.events = None, !.synced = TRUE]
        ELSE IF include_all_tags /\ change = TAG_CHANGE_ALL_REMOVED
        THEN [r EXCEPT !.always_include = TRUE, !.synced = FALSE]
        ELSE IF include_all_tags /\ r.room_id \in all_tags
        THEN [r EXCEPT !.always_include = TRUE]
        ELSE IF r.room_id \in DOMAIN include_map
        THEN IF ~IsNone(include_map[r.room_id])
             THEN [r EXCEPT !.since_token = include_map[r.room_id]]
             ELSE [r EXCEPT !.since_token = None, !.always_include = TRUE,
                            !.full_state = TRUE, !.would_require_resync = TRUE,
                            !.events = None, !.synced = FALSE]
        ELSE [r EXCEPT !.full_state = TRUE, !.would_require_resync = TRUE]

\* Lines 768-826: the plans after the tag and peek rules.
ApplyTagRules(W, room_entries, order, since_token, builder_pagination_state, has_pagination_config, include_all_tags, include_map) ==
    IF ~IsNone(builder_pagination_state)
    THEN LET missing_state == _get_rooms_that_need_full_state(
                 W, {room_entries[i].room_id : i \in 1..Len(room_entries)},
                 order, Val(since_token), Val(builder_pagination_state))
             all_tags == get_tags_for_user(W)
             tag_changes == IF ~IsNone(since_token)
                            THEN get_room_tags_changed(W, Val(since_token).account_data_key)
                            ELSE <<>>
         IN  [i \in 1..Len(room_entries) |->
                 IF room_entries[i].room_id \in missing_state
                 THEN RewriteMissing(room_entries[i], include_all_tags,
                                     tag_changes, all_tags, include_map)
                 ELSE room_entries[i]]
    ELSE IF has_pagination_config /\ include_all_tags
    THEN [i \in 1..Len(room_entries) |->
             IF room_entries[i].room_id \in get_tags_for_user(W)
             THEN [room_entries[i] EXCEPT !.always_include = TRUE]
             ELSE room_entries[i]]
    ELSE room_entries

\* Lines 856-863: the plan of a room the client asked for through
\* extras.paginate.
RewriteNewRoom(r, now_token) ==
    [r EXCEPT !.full_state = TRUE, !.always_include = TRUE,
              !.since_token = None, !.upto_token = now_token, !.events = None]

\* Lines 835-893.  Returns [status, room_entries, pagination_state,
\* pagination_info]; pagination_info is None for {} and else Some(limited).
\* status is "hang" when the timestamp fetch does not return and "error"
\* when cutoff_list[-1] raises.
KeepPlanInPageOnly(r, to_sync_map) == r.room_id \in to_sync_map

\* Lines 890-893: the plans that survive the paginator.
KeepPlan(r, to_sync_map) == r.room_id \in to_sync_map \/ r.always_include

Paginate(W, room_entries, pagination_config, old_pagination_value, extra_limit, now_token, order, builder_pagination_state) ==
    LET room_ids == {room_entries[i].room_id : i \in 1..Len(room_entries)}
        pagination_limit == pagination_config.limit
        fail(status) == [status |-> status, room_entries |-> <<>>,
                         pagination_state |-> None, pagination_info |-> None]
        sorted(room_map) ==
            LET items == DictItems({x.room_id : x \in room_map}, order)
            IN  SortByTsDesc(
                    [i \in 1..Len(items) |->
                        [room_id |-> items[i],
                         origin_server_ts |->
                             (CHOOSE x \in room_map : x.room_id = items[i]).ts]])
        rewritten(new_room_ids) ==
            [i \in 1..Len(room_entries) |->
                IF room_entries[i].room_id \in new_room_ids
                THEN RewriteNewRoom(room_entries[i], now_token)
                ELSE room_entries[i]]
    IN  Bind(_get_room_timestamps_at_token(W, room_ids, order, now_token,
                 pagination_limit + extra_limit + 1),
             LAMBDA fetched :
        IF fetched.status # "ok" THEN fail(fetched.status)
        ELSE IF fetched.map = {}
        THEN [status |-> "ok",
              room_entries |-> SelectSeq(room_entries, LAMBDA r : r.always_include),
              pagination_state |->
                  IF Len(room_entries) = 0 THEN None ELSE builder_pagination_state,
              pagination_info |-> Some(FALSE)]
        ELSE
        Bind(sorted(fetched.map), LAMBDA sorted_list :
        Bind(PySliceTo(sorted_list, pagination_limit + extra_limit),
             LAMBDA cutoff_list :
        IF cutoff_list = <<>> THEN fail("error")
        ELSE
        LET new_list == PySliceFrom(cutoff_list, pagination_limit)
            new_room_ids == {new_list[i].room_id : i \in 1..Len(new_list)}
            value == Last(cutoff_list).origin_server_ts
            rest == PySliceFrom(sorted_list, pagination_limit + extra_limit)
            limited == \E i \in 1..Len(rest) :
                           /\ old_pagination_value < rest[i].origin_server_ts
                           /\ rest[i].origin_server_ts < value
            to_sync_map == {cutoff_list[i].room_id : i \in 1..Len(cutoff_list)}
        IN  [status |-> "ok",
             room_entries |->
                 SelectSeq(rewritten(new_room_ids), LAMBDA r :
                     KeepPlan(r, to_sync_map)),
             pagination_state |->
                 IF Cardinality(fetched.map) = Len(room_entries) THEN None
                 ELSE Some(SyncPaginationState(
                          pagination_config.order, value,
                          pagination_limit + extra_limit, pagination_config.tags)),
             pagination_info |-> Some(limited)])))

\* Lines 897-907: every plan materialized, in the order of the plans.
\* Returns [status, results].
RECURSIVE Materialize(_, _, _, _, _, _, _, _, _)
Materialize(W, builder_full_state, now_token, timeline_limit, room_entries, ephemeral_by_room_, tags_by_room, account_data_by_room, prefer_last) ==
    IF room_entries = <<>> THEN [status |-> "ok", results |-> <<>>]
    ELSE
    LET r == room_entries[1]
    IN  Bind(_generate_room_entry(
                 W, builder_full_state, now_token, timeline_limit, r,
                 IF r.room_id \in DOMAIN ephemeral_by_room_
                     THEN ephemeral_by_room_[r.room_id] ELSE <<>>,
                 IF r.room_id \in DOMAIN tags_by_room
                     THEN Some(tags_by_room[r.room_id]) ELSE None,
                 IF r.room_id \in DOMAIN account_data_by_room
                     THEN account_data_by_room[r.room_id] ELSE {},
                 prefer_last),
             LAMBDA one :
        Bind(Materialize(W, builder_full_state, now_token, timeline_limit,
                         Tail(room_entries), ephemeral_by_room_,
                         tags_by_room, account_data_by_room, prefer_last),
             LAMBDA more :
        IF one.status # "ok" \/ more.status # "ok"
        THEN [status |-> "error", results |-> <<>>]
        ELSE [status |-> "ok",
              results |-> (IF IsNone(one.result) THEN <<>>
                           ELSE <<Val(one.result)>>) \o more.results]))

\* Lines 911-921: the users whose join is carried in a joined room's
\* timeline or state.
NewlyJoinedUsers(joined) ==
    UNION {{e.state_key : e \in
               {x \in Range(joined[i].timeline.events) \cup Range(joined[i].state) :
                   x.type = Member /\ x.membership = JOIN}}
           : i \in 1..Len(joined)}

\* Returns the fields of the builder the call sets, the two values it
\* returns, and a status: "ok", "hang" or "error"; and room_entries as it is
\* before the paginator (planned) and when the rooms are materialized (plans).
_generate_sync_entry_for_rooms(W, sync_config, full_state, since_token, builder_pagination_state, builder_now_token, account_data_by_room, extras, choices) ==
    LET ignored_users == W.ignored
        tag_rooms == IF ~IsNone(since_token)
                     THEN get_updated_tags(W, Val(since_token).account_data_key)
                     ELSE get_tags_for_user(W)
        tags_by_room == [r \in tag_rooms |-> r \in get_tags_for_user(W)]
        has_config == ~IsNone(sync_config.pagination_config)
        pagination_config ==
            IF has_config THEN sync_config.pagination_config
            ELSE IF ~IsNone(builder_pagination_state)
            THEN Some(SyncPaginationConfig(
                     Val(builder_pagination_state).order,
                     Val(builder_pagination_state).limit,
                     Val(builder_pagination_state).tags))
            ELSE None
        old_pagination_value ==
            IF ~has_config /\ ~IsNone(builder_pagination_state)
            THEN Val(builder_pagination_state).value ELSE 0
        include_all_tags ==
            /\ ~IsNone(pagination_config)
            /\ Val(pagination_config).tags = SYNC_PAGINATION_TAGS_INCLUDE_ALL
        include_map == extras.peek
        builder_full_state == full_state \/ IsNone(since_token)
    IN  Bind(ephemeral_by_room(W, builder_now_token, since_token), LAMBDA eph :
        Bind(IF ~IsNone(since_token)
             THEN _get_rooms_changed(W, Val(since_token), eph.now_token,
                                     sync_config.timeline_limit, ignored_users)
             ELSE _get_all_rooms(W, eph.now_token, sync_config.include_leave,
                                 ignored_users),
             LAMBDA res :
        Bind(ApplyTagRules(W, res.room_entries, choices.order, since_token,
                           builder_pagination_state, has_config,
                           include_all_tags, include_map),
             LAMBDA tagged :
        Bind(IF ~IsNone(pagination_config)
             THEN Paginate(W, tagged, Val(pagination_config),
                           old_pagination_value, extras.paginate_limit,
                           eph.now_token, choices.order, builder_pagination_state)
             ELSE [status |-> "ok", room_entries |-> tagged,
                   pagination_state |-> builder_pagination_state,
                   pagination_info |-> None],
             LAMBDA paged :
        Bind(IF paged.status = "ok"
             THEN Materialize(W, builder_full_state, eph.now_token,
                              sync_config.timeline_limit, paged.room_entries,
                              eph.ephemeral_by_room, tags_by_room,
                              account_data_by_room, choices.prefer_last)
             ELSE [status |-> paged.status, results |-> <<>>],
             LAMBDA done :
        Bind(SelectSeq(done.results, LAMBDA x : x.kind = "joined"), LAMBDA joined :
        [status |-> done.status,
         planned |-> tagged,
         plans |-> paged.room_entries,
         now_token |-> eph.now_token,
         full_state |-> builder_full_state,
         pagination_state |-> paged.pagination_state,
         pagination_info |-> paged.pagination_info,
         joined |-> joined,
         archived |-> SelectSeq(done.results, LAMBDA x : x.kind = "archived"),
         invited |-> res.invited,
         errors |-> PeekErrors(include_map, tagged),
         newly_joined_rooms |-> res.newly_joined_rooms,
         newly_joined_users |->
             IF ~IsNone(since_token) THEN NewlyJoinedUsers(joined) ELSE {}]))))))

(***************************************************************************)
(* _generate_sync_entry_for_presence                                       *)
(***************************************************************************)
\* presence_source.get_new_events(from_key, include_offline): the users
\* with a presence update after from_key (every user with one when from_key
\* is None), and the stream's position.
presence_get_new_events(W, from_key) ==
    [events |-> {W.presence[i] : i \in {j \in 1..Len(W.presence) :
                    IsNone(from_key) \/ j > Val(from_key)}},
     key |-> Len(W.presence)]

\* Returns the presence of the response, as the set of the users it is
\* about, and the builder's now_token.
_generate_sync_entry_for_presence(W, since_token, builder_full_state, builder_now_token, newly_joined_rooms, newly_joined_users) ==
    LET presence_key == IF ~IsNone(since_token) /\ ~builder_full_state
                        THEN Some(Val(since_token).presence_key) ELSE None
        got == presence_get_new_events(W, presence_key)
        extra_users_ids ==
            (newly_joined_users
                \cup UNION {get_users_in_room(W, r) : r \in newly_joined_rooms})
            \ {User}
    IN  [now_token |-> copy_and_replace(builder_now_token, "presence_key", got.key),
         presence |-> filter_presence(got.events \cup extra_users_ids)]

(***************************************************************************)
(* generate_sync_result                                                    *)
(***************************************************************************)
\* A __nonzero__ that counts the errors too.
SyncResultNonzeroWithErrors(result) ==
    \/ result.presence # {}
    \/ result.joined # <<>>
    \/ result.invited # <<>>
    \/ result.archived # <<>>
    \/ result.account_data # {}
    \/ result.errors # <<>>

\* SyncResult.__nonzero__
SyncResultNonzero(result) ==
    \/ result.presence # {}
    \/ result.joined # <<>>
    \/ result.invited # <<>>
    \/ result.archived # <<>>
    \/ result.account_data # {}

\* now_token is what event_sources.get_current_token() returned when the
\* call began; W is the world the rest of the call reads.  The result has
\* status "ok" when the call returns a SyncResult, "hang" when it never
\* returns and "error" when it raises.
generate_sync_result(W, now_token, sync_config, batch_token, full_state, extras, choices) ==
    LET since_token == IF ~IsNone(batch_token)
                       THEN Some(Val(batch_token).stream_token) ELSE None
        pagination_state == IF ~IsNone(batch_token)
                            THEN Val(batch_token).pagination_state ELSE None
    IN  Bind(_generate_sync_entry_for_account_data(W, since_token, full_state),
             LAMBDA ad :
        Bind(_generate_sync_entry_for_rooms(
                 W, sync_config, full_state, since_token, pagination_state,
                 now_token, ad.account_data_by_room, extras, choices),
             LAMBDA rooms :
        IF rooms.status # "ok"
        THEN [status |-> rooms.status]
        ELSE
        Bind(_generate_sync_entry_for_presence(
                 W, since_token, rooms.full_state, rooms.now_token,
                 rooms.newly_joined_rooms, rooms.newly_joined_users),
             LAMBDA pres :
        [status |-> "ok",
         presence |-> pres.presence,
         account_data |-> ad.account_data,
         joined |-> rooms.joined,
         invited |-> rooms.invited,
         archived |-> rooms.archived,
         errors |-> rooms.errors,
         next_batch |-> SyncNextBatchToken(pres.now_token, rooms.pagination_state),
         pagination_info |-> rooms.pagination_info])))

(***************************************************************************)
(* SpecRooms: the user's memberships and the rooms' timelines change, and  *)
(* the client syncs: initially, or from the cursor of an earlier response. *)
(* A sync is one call of generate_sync_result with timeout 0.  The world   *)
(* is held still from the call to the client's receipt of the response:    *)
(* the response depends on the world as the call read it, and on nothing   *)
(* that happens after.                                                     *)
(***************************************************************************)
MaxLog == 3

MemberEvent(pos, room_id, sender, state_key, membership) ==
    [pos |-> pos, event_id |-> pos, room_id |-> room_id, type |-> Member,
     sender |-> sender, state_key |-> state_key, membership |-> membership,
     ok |-> "ok", origin_server_ts |-> pos]

MessageEvent(pos, room_id, sender, ok) ==
    [pos |-> pos, event_id |-> pos, room_id |-> room_id, type |-> Message,
     sender |-> sender, state_key |-> "", membership |-> "",
     ok |-> ok, origin_server_ts |-> pos]

\* The membership changes a room allows a user in the given membership.
CanChange(current, membership, sender) ==
    \/ membership = JOIN /\ current \notin {JOIN, BAN} /\ sender = User
    \/ membership = INVITE /\ current \in {"", LEAVE} /\ sender # User
    \/ membership = LEAVE /\ current \in {JOIN, INVITE}
    \/ membership = BAN /\ current # BAN /\ sender # User

\* What the code leaves to the runtime.
Orders == {o \in [1..NumRooms -> Rooms] : \A r \in Rooms : \E i \in 1..NumRooms : o[i] = r}
Choices == [order : Orders, prefer_last : BOOLEAN]

SyncConfig(timeline_limit, include_leave, pagination_config) ==
    [timeline_limit |-> timeline_limit, include_leave |-> include_leave,
     pagination_config |-> pagination_config]

Extras(paginate_limit, peek) == [paginate_limit |-> paginate_limit, peek |-> peek]

\* extras.peek: no room, or one room without a since token.
Peeks == {<<>>} \cup {[r \in {x} |-> None] : x \in Rooms}

RoomsTimelineLimit == 2

RoomsInit ==
    /\ world = EmptyWorld
    /\ sync = [pc |-> "idle", cursor |-> None, request |-> None, result |-> None]

ChangeMembership ==
    \E r \in Rooms, membership \in {JOIN, INVITE, LEAVE, BAN}, sender \in {User, "@a"} :
        /\ sync.pc = "idle"
        /\ Len(world.log) < MaxLog
        /\ CanChange(MembershipOf(world, r), membership, sender)
        /\ world' = [world EXCEPT !.log = Append(@,
               MemberEvent(Len(world.log) + 1, r, sender, User, membership))]
        /\ UNCHANGED <<sd, tl, sync, sr, poll>>

SendMessage ==
    \E r \in Rooms, ok \in {"ok", "hidden"} :
        /\ sync.pc = "idle"
        /\ Len(world.log) < MaxLog
        /\ world' = [world EXCEPT !.log = Append(@,
               MessageEvent(Len(world.log) + 1, r, "@a", ok))]
        /\ UNCHANGED <<sd, tl, sync, sr, poll>>

\* One sync: wait_for_sync_for_user with timeout 0.  Without a pagination
\* config no dict of rooms is iterated: the order is the rooms' own.
RoomsSync ==
    \E with_cursor \in BOOLEAN, full_state \in BOOLEAN, peek \in Peeks, prefer_last \in BOOLEAN :
        LET batch_token == IF with_cursor THEN sync.cursor ELSE None
            sync_config == SyncConfig(RoomsTimelineLimit, FALSE, None)
            extras == Extras(0, peek)
            choices == [order |-> [i \in 1..NumRooms |-> i], prefer_last |-> prefer_last]
            result == generate_sync_result(world, get_current_token(world),
                          sync_config, batch_token, full_state, extras, choices)
        IN  /\ sync.pc = "idle"
            /\ with_cursor => ~IsNone(sync.cursor)
            /\ sync' = [sync EXCEPT !.pc = "done",
                            !.request = Some([batch_token |-> batch_token,
                                              full_state |-> full_state,
                                              extras |-> extras]),
                            !.result = Some(result)]
            /\ UNCHANGED <<sd, tl, world, sr, poll>>

\* The client receives the response, and syncs from its next_batch from
\* now on or keeps the cursor it had.
RoomsReceive ==
    \E adopt \in BOOLEAN :
        /\ sync.pc = "done"
        /\ adopt => Val(sync.result).status = "ok"
        /\ sync' = [pc |-> "idle",
                    cursor |-> IF adopt THEN Some(Val(sync.result).next_batch)
                               ELSE sync.cursor,
                    request |-> None, result |-> None]
        /\ UNCHANGED <<sd, tl, world, sr, poll>>

InitRooms == RoomsInit /\ sd = SdIdle /\ tl = TlIdle /\ sr = SrIdle /\ poll = PollIdle
NextRooms == ChangeMembership \/ SendMessage \/ RoomsSync \/ RoomsReceive
SpecRooms == InitRooms /\ [][NextRooms]_vars

\* The response of the last sync, when it returned one.
Responded == sync.pc = "done" /\ Val(sync.result).status = "ok"
Response == Val(sync.result)

RoomIdsOf(list) == {list[i].room_id : i \in 1..Len(list)}

\* C3: no room occurs in more than one of the lists joined, archived,
\* invited and errors of a response.
C3_RoomInOneList ==
    Responded =>
        \A r \in Rooms :
            Cardinality({k \in {"joined", "archived", "invited", "errors"} :
                            r \in RoomIdsOf(Response[k])}) <= 1

(***************************************************************************)
(* SpecResult: the truth value of one SyncResult, as the notifier and the  *)
(* servlet take it.                                                        *)
(***************************************************************************)
\* The values a field of a SyncResult is drawn from: empty, or one entry.
SrPresence == {{}, {"@a"}}
SrAccountData == {{}, {"m.a"}}
SrJoined == {<<>>, <<[kind |-> "joined", room_id |-> 1]>>}
SrInvited == {<<>>, <<[room_id |-> 1]>>}
SrArchived == {<<>>, <<[kind |-> "archived", room_id |-> 1]>>}
SrErrors == {<<>>, <<ErrorSyncResult(1, CANNOT_PEEK)>>}
SrPaginationInfo == {None, Some(FALSE), Some(TRUE)}
SrNextBatch ==
    {SyncNextBatchToken(RoomToken(k), ps) :
        k \in {0, 1},
        ps \in {None, Some(SyncPaginationState(SYNC_PAGINATION_ORDER_TS, 1, 1,
                                               SYNC_PAGINATION_TAGS_IGNORE))}}

SrInit ==
    \E presence \in SrPresence, account_data \in SrAccountData, joined \in SrJoined,
       invited \in SrInvited, archived \in SrArchived, errors \in SrErrors,
       pagination_info \in SrPaginationInfo, next_batch \in SrNextBatch :
        sr = [pc |-> "start", nonzero |-> FALSE,
              result |-> [status |-> "ok", presence |-> presence,
                          account_data |-> account_data, joined |-> joined,
                          invited |-> invited, archived |-> archived,
                          errors |-> errors, next_batch |-> next_batch,
                          pagination_info |-> pagination_info]]

\* bool(result)
SrBool ==
    /\ sr.pc = "start"
    /\ sr' = [sr EXCEPT !.pc = "done", !.nonzero = SyncResultNonzero(sr.result)]
    /\ UNCHANGED <<sd, tl, world, sync, poll>>

InitResult ==
    SrInit /\ sd = SdIdle /\ tl = TlIdle /\ world = WorldIdle /\ sync = SyncIdle /\ poll = PollIdle
NextResult == SrBool
SpecResult == InitResult /\ [][NextResult]_vars

SrFiveEmpty ==
    /\ sr.result.presence = {} /\ sr.result.joined = <<>>
    /\ sr.result.invited = <<>> /\ sr.result.archived = <<>>
    /\ sr.result.account_data = {}

\* C8: a SyncResult is empty exactly when presence, joined, invited,
\* archived and account_data are all empty, whatever errors, pagination_info
\* and next_batch hold.
C8_EmptyIffFiveEmpty ==
    sr.pc = "done" => (~sr.nonzero <=> SrFiveEmpty)

\* A result that holds an error and a pagination_info, and is empty.
C8_Witness ==
    /\ sr.pc = "done" /\ ~sr.nonzero /\ SrFiveEmpty
    /\ sr.result.errors # <<>> /\ sr.result.pagination_info = Some(TRUE)

(***************************************************************************)
(* SpecTokens: the user is joined to room 1 and the six streams advance,   *)
(* also between the moment a sync reads the current token and the moment   *)
(* it reads the streams.  The client syncs initially or from the cursor of *)
(* an earlier response.                                                    *)
(***************************************************************************)
MaxAdvances == 3

Streams == {"room", "presence", "typing", "receipt", "account_data", "push_rules"}

Advanced(W) ==
    Len(W.log) + Len(W.presence) + Len(W.typing) + Len(W.receipts) + Len(W.acct) + W.push

GlobalAccountData(type) ==
    [kind |-> "global", room_id |-> 0, tagged |-> FALSE, type |-> type]

\* The stream advanced by one entry.
Advance(W, stream) ==
    CASE stream = "room" ->
           [W EXCEPT !.log = Append(@, MessageEvent(Len(W.log) + 1, 1, "@a", "ok"))]
      [] stream = "presence" -> [W EXCEPT !.presence = Append(@, "@a")]
      [] stream = "typing" -> [W EXCEPT !.typing = Append(@, 1)]
      [] stream = "receipt" -> [W EXCEPT !.receipts = Append(@, 1)]
      [] stream = "account_data" -> [W EXCEPT !.acct = Append(@, GlobalAccountData("m.a"))]
      [] stream = "push_rules" -> [W EXCEPT !.push = @ + 1]

JoinedWorld == [EmptyWorld EXCEPT !.log = <<MemberEvent(1, 1, User, User, JOIN)>>]

TokensInit ==
    /\ world = JoinedWorld
    /\ sync = [pc |-> "idle", cursor |-> None, request |-> None,
               now_token |-> None, result |-> None]

AdvanceStream ==
    \E stream \in Streams :
        /\ sync.pc \in {"idle", "begun"}
        /\ Advanced(world) < Advanced(JoinedWorld) + MaxAdvances
        /\ world' = Advance(world, stream)
        /\ UNCHANGED <<sd, tl, sync, sr, poll>>

\* Line 558: generate_sync_result reads the current token.
TokensBegin ==
    \E with_cursor \in BOOLEAN, full_state \in BOOLEAN :
        /\ sync.pc = "idle"
        /\ with_cursor => ~IsNone(sync.cursor)
        /\ sync' = [sync EXCEPT !.pc = "begun",
                        !.request = Some([batch_token |-> IF with_cursor THEN sync.cursor
                                                          ELSE None,
                                          full_state |-> full_state,
                                          extras |-> Extras(0, <<>>)]),
                        !.now_token = Some(get_current_token(world))]
        /\ UNCHANGED <<sd, tl, world, sr, poll>>

\* Lines 560-591: the rest of generate_sync_result.
TokensFinish ==
    /\ sync.pc = "begun"
    /\ sync' = [sync EXCEPT !.pc = "done",
                    !.result = Some(generate_sync_result(
                        world, Val(sync.now_token),
                        SyncConfig(RoomsTimelineLimit, FALSE, None),
                        Val(sync.request).batch_token, Val(sync.request).full_state,
                        Val(sync.request).extras,
                        [order |-> [i \in 1..NumRooms |-> i], prefer_last |-> TRUE]))]
    /\ UNCHANGED <<sd, tl, world, sr, poll>>

TokensReceive ==
    \E adopt \in BOOLEAN :
        /\ sync.pc = "done"
        /\ adopt => Val(sync.result).status = "ok"
        /\ sync' = [pc |-> "idle",
                    cursor |-> IF adopt THEN Some(Val(sync.result).next_batch)
                               ELSE sync.cursor,
                    request |-> None, now_token |-> None, result |-> None]
        /\ UNCHANGED <<sd, tl, world, sr, poll>>

InitTokens == TokensInit /\ sd = SdIdle /\ tl = TlIdle /\ sr = SrIdle /\ poll = PollIdle
NextTokens == AdvanceStream \/ TokensBegin \/ TokensFinish \/ TokensReceive
SpecTokens == InitTokens /\ [][NextTokens]_vars

\* The cursor of the last sync, when it had one.
HasCursor == sync.pc = "done" /\ ~IsNone(Val(sync.request).batch_token)
Cursor == Val(Val(sync.request).batch_token)

\* C2: each sub-position of next_batch.stream_token is at or after the same
\* sub-position of the cursor the sync was given.
C2_NextBatchDominatesCursor ==
    (Responded /\ HasCursor) =>
        \A k \in TokenKeys :
            Response.next_batch.stream_token[k] >= Cursor.stream_token[k]

\* A sync from a cursor inside the typing stream, whose response is ahead of
\* the token the sync read when it began.
C2_Witness ==
    /\ Responded /\ HasCursor
    /\ Cursor.stream_token.typing_key > 0
    /\ Response.next_batch.stream_token # Val(sync.now_token)
    /\ Response.next_batch.stream_token # Cursor.stream_token

(***************************************************************************)
(* SpecPaging: the syncs of a client with a fixed config, which may hold a *)
(* pagination config, against a server whose rooms the user may be joined  *)
(* to, may carry a tag, and may end in a message that the filters reject.  *)
(* After the client's first sync one more message may arrive.              *)
(***************************************************************************)
MaxPageLimit == 2
MaxPagingSends == 1

\* The log of a server where, room by room in the given order, the user
\* joined the rooms of joined and the rooms got their message: msg[r] is
\* "none", or the ok of the message.
PagingLog(order, joined, msg) ==
    LET parts == [i \in 1..Len(order) |->
                     (IF order[i] \in joined
                      THEN <<[room_id |-> order[i], ok |-> "join"]>> ELSE <<>>)
                     \o (IF msg[order[i]] # "none"
                         THEN <<[room_id |-> order[i], ok |-> msg[order[i]]]>>
                         ELSE <<>>)]
        flat == Flatten(parts)
    IN  [i \in 1..Len(flat) |->
            IF flat[i].ok = "join"
            THEN MemberEvent(i, flat[i].room_id, User, User, JOIN)
            ELSE MessageEvent(i, flat[i].room_id, "@a", flat[i].ok)]

TagEntry(room_id, tagged) ==
    [kind |-> "tag", room_id |-> room_id, tagged |-> tagged, type |-> "m.tag"]

PagingTags(tagged) ==
    LET rs == SortedSeq(tagged)
    IN  [i \in 1..Len(rs) |-> TagEntry(rs[i], TRUE)]

PaginationConfigs ==
    {None} \cup {Some(SyncPaginationConfig(SYNC_PAGINATION_ORDER_TS, limit, tags)) :
                    limit \in 0..MaxPageLimit,
                    tags \in {SYNC_PAGINATION_TAGS_INCLUDE_ALL, SYNC_PAGINATION_TAGS_IGNORE}}

PagingInit ==
    \E order \in Orders, joined \in SUBSET Rooms, tagged \in SUBSET Rooms,
       msg \in [Rooms -> {"none", "ok", "filtered"}],
       pagination_config \in PaginationConfigs :
        /\ world = [EmptyWorld EXCEPT !.log = PagingLog(order, joined, msg),
                                      !.acct = PagingTags(tagged)]
        /\ sync = [pc |-> "idle", pagination_config |-> pagination_config,
                   start |-> Len(PagingLog(order, joined, msg)),
                   cursor |-> None, cursor_world |-> None,
                   request |-> None, result |-> None]

PagingSend ==
    \E r \in get_rooms_for_user(world) :
        /\ sync.pc = "idle"
        /\ ~IsNone(sync.cursor)
        /\ Len(world.log) < sync.start + MaxPagingSends
        /\ world' = [world EXCEPT !.log = Append(@,
               MessageEvent(Len(world.log) + 1, r, "@a", "ok"))]
        /\ UNCHANGED <<sd, tl, sync, sr, poll>>

\* One sync with timeout 0 and no extras: initially, or from the cursor.
PagingSync ==
    \E with_cursor \in BOOLEAN, order \in Orders :
        LET batch_token == IF with_cursor THEN sync.cursor ELSE None
            sync_config == SyncConfig(RoomsTimelineLimit, FALSE, sync.pagination_config)
            extras == Extras(0, <<>>)
            choices == [order |-> order, prefer_last |-> TRUE]
            result == generate_sync_result(world, get_current_token(world),
                          sync_config, batch_token, FALSE, extras, choices)
        IN  /\ sync.pc = "idle"
            /\ with_cursor <=> ~IsNone(sync.cursor)
            /\ sync' = [sync EXCEPT !.pc = "done",
                            !.request = Some([batch_token |-> batch_token,
                                              full_state |-> FALSE,
                                              extras |-> extras]),
                            !.result = Some(result)]
            /\ UNCHANGED <<sd, tl, world, sr, poll>>

\* The client receives the response and syncs from its next_batch from now
\* on; a call that did not return leaves the client where it was.
PagingReceive ==
    /\ sync.pc = "done"
    /\ sync' = [sync EXCEPT !.pc = "idle",
                    !.cursor = IF Val(sync.result).status = "ok"
                               THEN Some(Val(sync.result).next_batch) ELSE @,
                    !.cursor_world = IF Val(sync.result).status = "ok"
                                     THEN Some(world) ELSE @,
                    !.request = None, !.result = None]
    /\ UNCHANGED <<sd, tl, world, sr, poll>>

InitPaging == PagingInit /\ sd = SdIdle /\ tl = TlIdle /\ sr = SrIdle /\ poll = PollIdle
NextPaging == PagingSend \/ PagingSync \/ PagingReceive
SpecPaging == InitPaging /\ [][NextPaging]_vars

\* The last sync was made from the next_batch of the response before it,
\* and no stream has advanced since that response was computed.
Redelivery ==
    /\ Responded /\ HasCursor
    /\ sync.cursor_world = Some(world)

\* C4: a sync from the next_batch of the last response, with the same
\* config and no stream advanced since, returns a result whose presence,
\* joined, invited, archived and account_data are all empty.
C4_RedeliveryIsEmpty ==
    Redelivery => ~SyncResultNonzero(Response)

\* C23: _get_room_timestamps_at_token returns, also when the user has more
\* rooms than the fetch bound and the latest event of a room is rejected by
\* a filter: no sync is left waiting for it.
C23_FetchReturns ==
    sync.pc = "done" => Val(sync.result).status # "hang"

\* The timestamp of the latest event of a room.
LatestTs(r) == Last(RoomEvents(world, r)).origin_server_ts

\* The rooms of a set with fewer than n rooms of later activity.
TopRooms(rooms, n) ==
    {r \in rooms : Cardinality({q \in rooms : LatestTs(q) > LatestTs(r)}) < n}

\* The last sync was an initial sync under a pagination config of limit L,
\* with no extras, of a user joined to more than L rooms whose latest events
\* all pass the filters.
FirstPage ==
    /\ Responded /\ ~HasCursor
    /\ ~IsNone(sync.pagination_config)
    /\ Val(sync.request).extras = Extras(0, <<>>)
    /\ Cardinality(get_rooms_for_user(world)) > Val(sync.pagination_config).limit
    /\ \A r \in get_rooms_for_user(world) : Last(RoomEvents(world, r)).ok = "ok"

\* C14: the first page of a paged initial sync holds exactly the L rooms of
\* latest activity, is limited, and next_batch.pagination_state.value is the
\* L-th greatest timestamp.
C14_FirstPageIsTopL ==
    FirstPage =>
        LET L == Val(sync.pagination_config).limit
            joined == get_rooms_for_user(world)
        IN  /\ RoomIdsOf(Response.joined) = TopRooms(joined, L)
            /\ Response.pagination_info = Some(TRUE)
            /\ ~IsNone(Response.next_batch.pagination_state)
            /\ \E r \in TopRooms(joined, L) :
                   /\ \A q \in TopRooms(joined, L) : LatestTs(r) <= LatestTs(q)
                   /\ Val(Response.next_batch.pagination_state).value = LatestTs(r)

(***************************************************************************)
(* SpecMembers: the user's membership of the rooms changes, by the user or *)
(* by @a, whom the user may have put on the ignored-users list, and the    *)
(* client syncs without pagination: initially or from a cursor, with a     *)
(* timeline limit that may be 0, with or without include_leave, and with   *)
(* or without a peek.  The request is kept whole with the response.        *)
(***************************************************************************)
MembersInit ==
    \E ignored \in {{}, {"@a"}} :
        /\ world = [EmptyWorld EXCEPT !.ignored = ignored]
        /\ sync = [pc |-> "idle", cursor |-> None, request |-> None, result |-> None]

MembersSync ==
    \E with_cursor \in BOOLEAN, full_state \in BOOLEAN, peek \in Peeks,
       include_leave \in BOOLEAN, timeline_limit \in {0, RoomsTimelineLimit} :
        LET batch_token == IF with_cursor THEN sync.cursor ELSE None
            sync_config == SyncConfig(timeline_limit, include_leave, None)
            choices == [order |-> [i \in 1..NumRooms |-> i], prefer_last |-> TRUE]
        IN  /\ sync.pc = "idle"
            /\ with_cursor => ~IsNone(sync.cursor)
            /\ sync' = [sync EXCEPT
                   !.pc = "done",
                   !.request = Some([sync_config |-> sync_config,
                                     batch_token |-> batch_token,
                                     full_state |-> full_state,
                                     extras |-> Extras(0, peek),
                                     choices |-> choices]),
                   !.result = Some(generate_sync_result(
                       world, get_current_token(world), sync_config, batch_token,
                       full_state, Extras(0, peek), choices))]
            /\ UNCHANGED <<sd, tl, world, sr, poll>>

InitMembers == MembersInit /\ sd = SdIdle /\ tl = TlIdle /\ sr = SrIdle /\ poll = PollIdle
NextMembers == ChangeMembership \/ MembersSync \/ RoomsReceive
SpecMembers == InitMembers /\ [][NextMembers]_vars

Request == Val(sync.request)

\* The results of a list that are about a room.
ResultsFor(list, room_id) == SelectSeq(list, LAMBDA x : x.room_id = room_id)

\* The user's latest membership event of a room.
LastMembership(room_id) == Last(MembershipEvents(world, room_id))

\* A room result whose state is the delta of full-state mode for its
\* timeline: the state at the tip and at the start of the timeline, less
\* what the timeline holds, with nothing taken as known to the client.
IsFullState(room_sync) ==
    /\ room_sync.full_state
    /\ room_sync.state =
           compute_state_delta(world, room_sync.room_id, room_sync.timeline, None,
                               Response.next_batch.stream_token, TRUE,
                               Request.choices.prefer_last).state

\* The room is one an initial sync leaves out: the user left it herself, and
\* the filter does not ask for left rooms.
Suppressed(room_id) ==
    /\ ~Request.sync_config.include_leave
    /\ LastMembership(room_id).membership = LEAVE
    /\ LastMembership(room_id).sender = User

\* C16: a sync without a cursor delivers every room the user is joined to as
\* one Joined result and every left or banned room that is not suppressed as
\* one Archived result, each with a full-state delta, whatever its timeline.
C16_InitialSyncFullState ==
    (sync.pc = "done" /\ ~HasCursor) =>
        /\ Response.status = "ok"
        /\ \A r \in Rooms :
                /\ MembershipOf(world, r) = JOIN =>
                       /\ Len(ResultsFor(Response.joined, r)) = 1
                       /\ IsFullState(ResultsFor(Response.joined, r)[1])
                /\ (MembershipOf(world, r) \in {LEAVE, BAN} /\ ~Suppressed(r)) =>
                       /\ Len(ResultsFor(Response.archived, r)) = 1
                       /\ IsFullState(ResultsFor(Response.archived, r)[1])

\* An initial sync with timeline limit 0 of a user who is joined to a room
\* and banned from the other: both results have an empty timeline and carry
\* state.
C16_Witness ==
    /\ Responded /\ ~HasCursor
    /\ Len(Response.joined) = 1 /\ Len(Response.archived) = 1
    /\ Response.joined[1].timeline.events = <<>>
    /\ Response.archived[1].timeline.events = <<>>
    /\ DOMAIN Response.joined[1].state # {}
    /\ MembershipOf(world, Response.archived[1].room_id) = BAN

\* The user's membership of a room at a position of the room stream.
MembershipAt(room_id, room_key) ==
    LET earlier == SelectSeq(MembershipEvents(world, room_id),
                             LAMBDA e : e.pos <= room_key)
    IN  IF earlier = <<>> THEN "" ELSE Last(earlier).membership

\* The user's membership changes of a room since the cursor.
ChangesSince(room_id) ==
    SelectSeq(MembershipEvents(world, room_id),
              LAMBDA e : e.pos > Cursor.stream_token.room_key)

\* The user is joined to the room, was not at the cursor, and her
\* membership of it changed since.
NewlyJoined(room_id) ==
    /\ MembershipOf(world, room_id) = JOIN
    /\ ChangesSince(room_id) # <<>>
    /\ MembershipAt(room_id, Cursor.stream_token.room_key) # JOIN

\* C17: a sync from a cursor delivers every room the user joined since the
\* cursor, and is still joined to, as one Joined result with a full-state
\* delta and synced = true, and as no Invited and no Archived result.
C17_NewlyJoinedFullState ==
    (Responded /\ HasCursor) =>
        \A r \in Rooms :
            NewlyJoined(r) =>
                /\ Len(ResultsFor(Response.joined, r)) = 1
                /\ IsFullState(ResultsFor(Response.joined, r)[1])
                /\ ResultsFor(Response.joined, r)[1].synced
                /\ r \notin RoomIdsOf(Response.invited)
                                \cup RoomIdsOf(Response.archived)

\* A sync from a cursor at which the user was not in the room, after she
\* was invited to it and joined it.
C17_Witness ==
    /\ Responded /\ HasCursor
    /\ \E r \in Rooms :
          /\ NewlyJoined(r)
          /\ Len(ChangesSince(r)) = 2
          /\ ChangesSince(r)[1].membership = INVITE
          /\ r \in RoomIdsOf(Response.joined)

\* The user's membership changes of a room that the sync looks at: all of
\* them without a cursor, and with one those since the cursor.
ChangesInView(room_id) ==
    IF HasCursor THEN ChangesSince(room_id) ELSE MembershipEvents(world, room_id)

\* The user is not joined to the room, and the latest change in view that is
\* not a join is an invite by a user she does not ignore.
InviteDue(room_id) ==
    LET non_joins == SelectSeq(ChangesInView(room_id),
                               LAMBDA e : e.membership # JOIN)
    IN  /\ MembershipOf(world, room_id) # JOIN
        /\ non_joins # <<>>
        /\ Last(non_joins).membership = INVITE
        /\ Last(non_joins).sender \notin world.ignored

\* C18: a sync emits an Invited result for a room exactly when the user is
\* not joined to it and her latest membership change that is not a join is
\* an invite whose sender she does not ignore; no Invited result carries an
\* invite sent by an ignored user.
C18_InvitedIffNotIgnored ==
    Responded =>
        /\ \A r \in Rooms : r \in RoomIdsOf(Response.invited) <=> InviteDue(r)
        /\ \A i \in 1..Len(Response.invited) :
               Response.invited[i].invite.sender \notin world.ignored

\* The archived plans _get_all_rooms makes for a room in the sync's world.
ArchivedPlans(room_id) ==
    SelectSeq(_get_all_rooms(world, get_current_token(world),
                             Request.sync_config.include_leave,
                             world.ignored).room_entries,
              LAMBDA r : r.room_id = room_id /\ r.rtype = "archived")

\* C19: in a sync without a cursor a room the user left herself has an
\* archived plan, and an Archived result, only if include_leave is set; a
\* room she was banned or kicked from has one archived plan, with
\* full_state and with upto_token at the position of the ban or kick.
C19_LeftRoomsPlans ==
    (Responded /\ ~HasCursor) =>
        \A r \in Rooms :
            /\ (MembershipOf(world, r) = LEAVE /\ LastMembership(r).sender = User) =>
                   /\ ArchivedPlans(r) # <<>> <=> Request.sync_config.include_leave
                   /\ r \in RoomIdsOf(Response.archived)
                          <=> Request.sync_config.include_leave
            /\ (\/ MembershipOf(world, r) = BAN
                \/ MembershipOf(world, r) = LEAVE /\ LastMembership(r).sender # User) =>
                   /\ Len(ArchivedPlans(r)) = 1
                   /\ ArchivedPlans(r)[1].full_state
                   /\ ArchivedPlans(r)[1].upto_token.room_key = LastMembership(r).pos
                   /\ r \in RoomIdsOf(Response.archived)

\* A sync without a cursor and without include_leave of a user who turned
\* down an invite to one room and then was banned from the other: the first
\* room is left out, the second is archived up to the ban.
C19_Witness ==
    /\ Responded /\ ~HasCursor /\ ~Request.sync_config.include_leave
    /\ \E r, k \in Rooms :
          /\ MembershipOf(world, r) = LEAVE /\ LastMembership(r).sender = User
          /\ r \notin RoomIdsOf(Response.archived)
          /\ MembershipOf(world, k) = BAN
          /\ k \in RoomIdsOf(Response.archived)
          /\ ArchivedPlans(k)[1].upto_token.room_key = LastMembership(k).pos

\* The rooms the sync has a plan for, as _get_rooms_changed or
\* _get_all_rooms makes them.
PlannedRooms ==
    LET now_token == get_current_token(world)
        room_entries ==
            IF HasCursor
            THEN _get_rooms_changed(world, Cursor.stream_token, now_token,
                                    Request.sync_config.timeline_limit,
                                    world.ignored).room_entries
            ELSE _get_all_rooms(world, now_token, Request.sync_config.include_leave,
                                world.ignored).room_entries
    IN  {room_entries[i].room_id : i \in 1..Len(room_entries)}

\* The rooms of extras.peek that have no plan.
FailedPeeks == DOMAIN Request.extras.peek \ PlannedRooms

\* The response to the same request without the peek entries of the rooms
\* that have no plan.
WithoutFailedPeeks ==
    generate_sync_result(
        world, get_current_token(world), Request.sync_config,
        Request.batch_token, Request.full_state,
        Extras(Request.extras.paginate_limit,
               [r \in DOMAIN Request.extras.peek \cap PlannedRooms |->
                   Request.extras.peek[r]]),
        Request.choices)

\* C20: the errors of a response are one CANNOT_PEEK error for each room of
\* extras.peek that has no plan and nothing else, and its joined, archived
\* and invited lists are those of the same sync without these peek entries.
C20_PeekErrors ==
    Responded =>
        /\ \A r \in Rooms :
               Len(ResultsFor(Response.errors, r)) =
                   IF r \in FailedPeeks THEN 1 ELSE 0
        /\ \A i \in 1..Len(Response.errors) :
               Response.errors[i].errcode = CANNOT_PEEK
        /\ FailedPeeks # {} =>
               Bind(WithoutFailedPeeks, LAMBDA other :
                   /\ other.status = "ok"
                   /\ Response.joined = other.joined
                   /\ Response.archived = other.archived
                   /\ Response.invited = other.invited)

\* A sync that peeks into a room the user has never been in, while she is
\* joined to the other: one error, and the other room is delivered.
C20_Witness ==
    /\ Responded
    /\ \E r \in Rooms :
          /\ MembershipOf(world, r) = ""
          /\ r \in DOMAIN Request.extras.peek
          /\ Response.errors = <<ErrorSyncResult(r, CANNOT_PEEK)>>
    /\ Response.joined # <<>>

(***************************************************************************)
(* SpecPages: a client makes an initial sync under a pagination config and *)
(* then polls from each next_batch it receives, asking for further pages   *)
(* through extras.paginate.  Nothing happens on the server meanwhile.  The *)
(* later polls carry the pagination config again, or leave it out and rely *)
(* on the pagination state of the cursor.                                  *)
(*                                                                         *)
(* sync.delivered  for every room, in how many of the responses so far it  *)
(*                 was a Joined result with full state                     *)
(* sync.asked      the sum of the extras.paginate.limit of the polls       *)
(***************************************************************************)
MaxPolls == 3
MaxPaginate == 2

PagesInit ==
    \E order \in Orders, joined \in SUBSET Rooms, msg \in [Rooms -> {"none", "ok"}],
       limit \in 0..MaxPageLimit :
        /\ world = [EmptyWorld EXCEPT !.log = PagingLog(order, joined, msg)]
        /\ sync = [pc |-> "idle",
                   pagination_config |-> Some(SyncPaginationConfig(
                       SYNC_PAGINATION_ORDER_TS, limit, SYNC_PAGINATION_TAGS_IGNORE)),
                   cursor |-> None, polls |-> 0, asked |-> 0,
                   delivered |-> [r \in Rooms |-> 0],
                   request |-> None, result |-> None]

\* The initial sync: the pagination config and no extras.
PagesFirst ==
    \E order \in Orders :
        /\ sync.pc = "idle" /\ sync.polls = 0
        /\ sync' = [sync EXCEPT
               !.pc = "done",
               !.request = Some([sync_config |-> SyncConfig(RoomsTimelineLimit, FALSE,
                                                            sync.pagination_config),
                                 batch_token |-> None, full_state |-> FALSE,
                                 extras |-> Extras(0, <<>>),
                                 choices |-> [order |-> order, prefer_last |-> TRUE]]),
               !.result = Some(generate_sync_result(
                   world, get_current_token(world),
                   SyncConfig(RoomsTimelineLimit, FALSE, sync.pagination_config),
                   None, FALSE, Extras(0, <<>>),
                   [order |-> order, prefer_last |-> TRUE]))]
        /\ UNCHANGED <<sd, tl, world, sr, poll>>

\* A poll from the last next_batch that asks for more rooms.
PagesNext ==
    \E order \in Orders, with_config \in BOOLEAN, paginate_limit \in 1..MaxPaginate :
        /\ sync.pc = "idle" /\ sync.polls >= 1 /\ sync.polls < MaxPolls
        /\ sync' = [sync EXCEPT
               !.pc = "done",
               !.asked = @ + paginate_limit,
               !.request = Some([sync_config |-> SyncConfig(RoomsTimelineLimit, FALSE,
                                     IF with_config THEN sync.pagination_config ELSE None),
                                 batch_token |-> sync.cursor, full_state |-> FALSE,
                                 extras |-> Extras(paginate_limit, <<>>),
                                 choices |-> [order |-> order, prefer_last |-> TRUE]]),
               !.result = Some(generate_sync_result(
                   world, get_current_token(world),
                   SyncConfig(RoomsTimelineLimit, FALSE,
                              IF with_config THEN sync.pagination_config ELSE None),
                   sync.cursor, FALSE, Extras(paginate_limit, <<>>),
                   [order |-> order, prefer_last |-> TRUE]))]
        /\ UNCHANGED <<sd, tl, world, sr, poll>>

\* The rooms a response delivers as Joined results with full state.
FullStateRooms(result) ==
    {result.joined[i].room_id :
        i \in {j \in 1..Len(result.joined) : result.joined[j].full_state}}

\* The client receives the response; a call that does not return a response
\* ends the sequence.
PagesReceive ==
    /\ sync.pc = "done"
    /\ IF Val(sync.result).status = "ok"
       THEN sync' = [sync EXCEPT
                !.pc = "idle",
                !.polls = @ + 1,
                !.cursor = Some(Val(sync.result).next_batch),
                !.delivered = [r \in Rooms |->
                    @[r] + (IF r \in FullStateRooms(Val(sync.result)) THEN 1 ELSE 0)],
                !.request = None, !.result = None]
       ELSE sync' = [sync EXCEPT !.pc = "failed"]
    /\ UNCHANGED <<sd, tl, world, sr, poll>>

InitPages == PagesInit /\ sd = SdIdle /\ tl = TlIdle /\ sr = SrIdle /\ poll = PollIdle
NextPages == PagesFirst \/ PagesNext \/ PagesReceive
SpecPages == InitPages /\ [][NextPages]_vars

\* C13: across the polls of a paged initial sync no joined room is delivered
\* with full state more than once, and once the pages asked for cover the
\* joined rooms every one of them has been delivered.
C13_EveryRoomOnce ==
    /\ \A r \in Rooms : sync.delivered[r] <= 1
    /\ (/\ sync.pc = "idle" /\ sync.polls >= 1
        /\ Val(sync.pagination_config).limit + sync.asked
               >= Cardinality(get_rooms_for_user(world)))
           => \A r \in get_rooms_for_user(world) : sync.delivered[r] = 1

\* The rooms part of the last sync of SpecPages: what
\* _generate_sync_entry_for_rooms did with the request.
PagesRooms ==
    LET req == Val(sync.request)
        since_token == IF ~IsNone(req.batch_token)
                       THEN Some(Val(req.batch_token).stream_token) ELSE None
        pagination_state == IF ~IsNone(req.batch_token)
                            THEN Val(req.batch_token).pagination_state ELSE None
    IN  _generate_sync_entry_for_rooms(
            world, req.sync_config, req.full_state, since_token, pagination_state,
            get_current_token(world),
            _generate_sync_entry_for_account_data(
                world, since_token, req.full_state).account_data_by_room,
            req.extras, req.choices)

\* The pagination limit of the last sync of SpecPages, when its paginator
\* ran: the limit of the config, or else of the cursor's pagination state.
PagesLimit ==
    LET req == Val(sync.request)
    IN  IF ~IsNone(req.sync_config.pagination_config)
        THEN Some(Val(req.sync_config.pagination_config).limit)
        ELSE IF ~IsNone(req.batch_token)
                /\ ~IsNone(Val(req.batch_token).pagination_state)
        THEN Some(Val(Val(req.batch_token).pagination_state).limit)
        ELSE None

\* The paginator ran on no more plans than the pagination limit plus the
\* extras limit.
WithinPage ==
    /\ Responded
    /\ ~IsNone(PagesLimit)
    /\ Len(PagesRooms.planned)
           <= Val(PagesLimit) + Val(sync.request).extras.paginate_limit

\* C15: a paginator that runs on at most limit + extras limit plans drops
\* none of them, and next_batch.pagination_state is null.
C15_SmallPollNotPaged ==
    WithinPage =>
        /\ Len(PagesRooms.plans) = Len(PagesRooms.planned)
        /\ RoomIdsOf(PagesRooms.plans) = RoomIdsOf(PagesRooms.planned)
        /\ IsNone(Response.next_batch.pagination_state)

\* A poll with two plans, more than the pagination limit and within the
\* limit plus the extras limit.
C15_Witness ==
    /\ WithinPage /\ HasCursor
    /\ Len(PagesRooms.planned) = 2
    /\ Val(PagesLimit) < 2
    /\ Len(Response.joined) >= 1

(***************************************************************************)
(* SpecVisible: the events of room 1 and the syncs of the user.  The       *)
(* visibility filter is not part of the handler: it accepts or rejects an  *)
(* event, state event or not, by the room's history visibility and the     *)
(* user's membership when the event was sent.  The fate of an event of     *)
(* another user is therefore free: ok is "ok", or "hidden" when the filter *)
(* rejects it.  The user's own membership events are accepted.             *)
(***************************************************************************)
MaxVisibleLog == 3

Fates == {"ok", "hidden"}

WithFate(event, ok) == [event EXCEPT !.ok = ok]

VisibleInit ==
    /\ world = EmptyWorld
    /\ sync = [pc |-> "idle", cursor |-> None, request |-> None, result |-> None]

\* Another user joins room 1: a state event of the room.
OtherJoins ==
    \E ok \in Fates :
        /\ sync.pc = "idle"
        /\ Len(world.log) < MaxVisibleLog
        /\ "@a" \notin get_users_in_room(world, 1)
        /\ world' = [world EXCEPT !.log = Append(@,
               WithFate(MemberEvent(Len(world.log) + 1, 1, "@a", "@a", JOIN), ok))]
        /\ UNCHANGED <<sd, tl, sync, sr, poll>>

\* The user's membership of room 1 changes.
VisibleMembership ==
    \E membership \in {JOIN, INVITE, LEAVE}, sender \in {User, "@a"} :
        /\ sync.pc = "idle"
        /\ Len(world.log) < MaxVisibleLog
        /\ CanChange(MembershipOf(world, 1), membership, sender)
        /\ world' = [world EXCEPT !.log = Append(@,
               MemberEvent(Len(world.log) + 1, 1, sender, User, membership))]
        /\ UNCHANGED <<sd, tl, sync, sr, poll>>

VisibleMessage ==
    \E ok \in Fates :
        /\ sync.pc = "idle"
        /\ Len(world.log) < MaxVisibleLog
        /\ world' = [world EXCEPT !.log = Append(@,
               MessageEvent(Len(world.log) + 1, 1, "@a", ok))]
        /\ UNCHANGED <<sd, tl, sync, sr, poll>>

\* One sync with timeout 0 and no extras.
VisibleSync ==
    \E with_cursor \in BOOLEAN, full_state \in BOOLEAN :
        LET batch_token == IF with_cursor THEN sync.cursor ELSE None
        IN  /\ sync.pc = "idle"
            /\ with_cursor => ~IsNone(sync.cursor)
            /\ sync' = [sync EXCEPT
                   !.pc = "done",
                   !.request = Some([batch_token |-> batch_token,
                                     full_state |-> full_state,
                                     extras |-> Extras(0, <<>>)]),
                   !.result = Some(generate_sync_result(
                       world, get_current_token(world),
                       SyncConfig(RoomsTimelineLimit, TRUE, None), batch_token,
                       full_state, Extras(0, <<>>),
                       [order |-> [i \in 1..NumRooms |-> i], prefer_last |-> TRUE]))]
            /\ UNCHANGED <<sd, tl, world, sr, poll>>

InitVisible == VisibleInit /\ sd = SdIdle /\ tl = TlIdle /\ sr = SrIdle /\ poll = PollIdle
NextVisible ==
    OtherJoins \/ VisibleMembership \/ VisibleMessage \/ VisibleSync \/ RoomsReceive
SpecVisible == InitVisible /\ [][NextVisible]_vars

\* The events a response carries: of every joined and archived room the
\* timeline and the state delta, and the invite of every invited room.
CarriedEvents(result) ==
    UNION {Range(result.joined[i].timeline.events) \cup Range(result.joined[i].state)
               : i \in 1..Len(result.joined)}
    \cup UNION {Range(result.archived[i].timeline.events) \cup Range(result.archived[i].state)
               : i \in 1..Len(result.archived)}
    \cup {result.invited[i].invite : i \in 1..Len(result.invited)}

\* C11: every event a response carries, in a timeline, in a state delta or
\* as an invite, is one the visibility filter accepts for the user.
C11_CarriedEventsVisible ==
    Responded => \A e \in CarriedEvents(Response) : e.ok # "hidden"

(***************************************************************************)
(* SpecPoll: calls of wait_for_sync_for_user.                              *)
(*                                                                         *)
(* poll.cache  the response cache: the pending computation of every        *)
(*             request key that has one                                    *)
(* poll.comps  the computations started, each one run of                   *)
(*             _wait_for_sync_for_user: its arguments, where it is, the    *)
(*             results it computed and the one it returned                 *)
(* poll.calls  the calls made: the request key, the entry the cache held   *)
(*             for it, the computation the caller got and whether the call *)
(*             started it                                                  *)
(*                                                                         *)
(* The user is joined to room 1; messages arrive in it, some of which the  *)
(* filters reject.  The response cache and the notifier are not part of    *)
(* the handler: the cache keeps an entry from set until the computation    *)
(* completes, and the notifier calls the callback when the user's streams  *)
(* have moved, returns the first non-empty result, and at the timeout      *)
(* returns the last result, calling the callback if it has none.           *)
(***************************************************************************)
MaxCalls == 2
MaxPollSends == 2
NumKeys == 2

RequestKeys == 1..NumKeys
Timeouts == {0, 1}

\* The cursor of a client that synced when the user had joined room 1.
JoinedCursor == SyncNextBatchToken(get_current_token(JoinedWorld), None)

\* response_cache.get(key): the pending computation, or None.
response_cache_get(cache, key) ==
    IF key \in DOMAIN cache THEN Some(cache[key]) ELSE None

\* response_cache.set(key, deferred)
response_cache_set(cache, key, deferred) ==
    [k \in DOMAIN cache \cup {key} |-> IF k = key THEN deferred ELSE cache[k]]

\* The callback response_cache.set adds to the deferred: the key is popped.
response_cache_remove(cache, key) ==
    [k \in DOMAIN cache \ {key} |-> cache[k]]

\* A wait_for_sync_for_user that does not look into the cache.
wait_for_sync_for_user_uncached(cache, key, next) ==
    [cache |-> response_cache_set(cache, key, next), result |-> next, started |-> TRUE]

\* Lines 205-213.  next is the computation the call starts if it starts
\* one.  Returns the cache, the computation the caller observes and whether
\* it was started.
wait_for_sync_for_user(cache, key, next) ==
    LET result == response_cache_get(cache, key)
    IN  IF IsNone(result)
        THEN [cache |-> response_cache_set(cache, key, next),
              result |-> next, started |-> TRUE]
        ELSE [cache |-> cache, result |-> Val(result), started |-> FALSE]

\* A condition of line 227 without its last disjunct.
ImmediateWithoutFullState(timeout, batch_token, full_state) ==
    timeout = 0 \/ IsNone(batch_token)

\* Line 227: the call returns at once.
Immediate(timeout, batch_token, full_state) ==
    timeout = 0 \/ IsNone(batch_token) \/ full_state

PollConfig == SyncConfig(RoomsTimelineLimit, FALSE, None)
PollChoices == [order |-> [i \in 1..NumRooms |-> i], prefer_last |-> TRUE]

\* A callback that syncs from the start.
current_sync_callback_initial(W, comp) ==
    [batch_token |-> None, full_state |-> FALSE,
     result |-> generate_sync_result(W, get_current_token(W), PollConfig, None,
                                     FALSE, Extras(0, <<>>), PollChoices)]

\* Lines 235-238: the arguments the callback gives generate_sync_result,
\* and the result.
current_sync_callback(W, comp) ==
    [batch_token |-> comp.batch_token, full_state |-> FALSE,
     result |-> generate_sync_result(W, get_current_token(W), PollConfig,
                                     comp.batch_token, FALSE, Extras(0, <<>>),
                                     PollChoices)]

NewComp(key, batch_token, timeout, full_state) ==
    [key |-> key, batch_token |-> batch_token, timeout |-> timeout,
     full_state |-> full_state, pc |-> "start", generated |-> 0,
     notifier_calls |-> 0, callbacks |-> {}, seen |-> None, expired |-> FALSE,
     last |-> None, returned |-> None]

PollInit ==
    /\ world = JoinedWorld
    /\ poll = [cache |-> <<>>, comps |-> <<>>, calls |-> <<>>]

PollSend ==
    \E ok \in {"ok", "filtered"} :
        /\ Len(world.log) < Len(JoinedWorld.log) + MaxPollSends
        /\ world' = [world EXCEPT !.log = Append(@,
               MessageEvent(Len(world.log) + 1, 1, "@a", ok))]
        /\ UNCHANGED <<sd, tl, sync, sr, poll>>

\* wait_for_sync_for_user, up to the first suspension of the computation it
\* starts.
PollCall ==
    \E key \in RequestKeys, with_cursor \in BOOLEAN, timeout \in Timeouts, full_state \in BOOLEAN :
        LET next == Len(poll.comps) + 1
            got == wait_for_sync_for_user(poll.cache, key, next)
            batch_token == IF with_cursor THEN Some(JoinedCursor) ELSE None
        IN  /\ Len(poll.calls) < MaxCalls
            /\ poll' = [cache |-> got.cache,
                        comps |-> IF got.started
                                  THEN Append(poll.comps,
                                           NewComp(key, batch_token, timeout, full_state))
                                  ELSE poll.comps,
                        calls |-> Append(poll.calls,
                                     [key |-> key,
                                      registered |->
                                          IF key \in DOMAIN poll.cache
                                          THEN Some(poll.cache[key]) ELSE None,
                                      comp |-> got.result,
                                      started |-> got.started])]
            /\ UNCHANGED <<sd, tl, world, sync, sr>>

\* A computation completes with a result: its cache entry is removed.
Complete(c, comp) ==
    poll' = [poll EXCEPT !.comps[c] = comp,
                         !.cache = response_cache_remove(@, comp.key)]

\* Lines 227-233.
PollGenerate(c) ==
    /\ c \in DOMAIN poll.comps
    /\ poll.comps[c].pc = "start"
    /\ Immediate(poll.comps[c].timeout, poll.comps[c].batch_token, poll.comps[c].full_state)
    /\ LET comp == poll.comps[c]
           result == generate_sync_result(world, get_current_token(world), PollConfig,
                         comp.batch_token, comp.full_state, Extras(0, <<>>), PollChoices)
       IN  Complete(c, [comp EXCEPT !.pc = "done", !.generated = @ + 1,
                                    !.last = Some(result), !.returned = Some(result)])
    /\ UNCHANGED <<sd, tl, world, sync, sr>>

\* Lines 234-243: notifier.wait_for_events is called, from the cursor.
PollWait(c) ==
    /\ c \in DOMAIN poll.comps
    /\ poll.comps[c].pc = "start"
    /\ ~Immediate(poll.comps[c].timeout, poll.comps[c].batch_token, poll.comps[c].full_state)
    /\ poll' = [poll EXCEPT !.comps[c].pc = "waiting",
                            !.comps[c].notifier_calls = @ + 1,
                            !.comps[c].seen =
                                Some(Val(poll.comps[c].batch_token).stream_token)]
    /\ UNCHANGED <<sd, tl, world, sync, sr>>

\* The notifier sees that the user's streams have moved and calls the
\* callback; a non-empty result is returned.
NotifierCallback(c) ==
    /\ c \in DOMAIN poll.comps
    /\ poll.comps[c].pc = "waiting"
    /\ ~poll.comps[c].expired
    /\ Val(poll.comps[c].seen) # get_current_token(world)
    /\ LET comp == poll.comps[c]
           called == current_sync_callback(world, comp)
           after == [comp EXCEPT
                        !.generated = @ + 1,
                        !.callbacks = @ \cup {[batch_token |-> called.batch_token,
                                               full_state |-> called.full_state]},
                        !.seen = Some(get_current_token(world)),
                        !.last = Some(called.result)]
       IN  IF SyncResultNonzero(called.result)
           THEN Complete(c, [after EXCEPT !.pc = "done",
                                          !.returned = Some(called.result)])
           ELSE poll' = [poll EXCEPT !.comps[c] = after]
    /\ UNCHANGED <<sd, tl, world, sync, sr>>

\* The timeout of the wait expires.
NotifierExpire(c) ==
    /\ c \in DOMAIN poll.comps
    /\ poll.comps[c].pc = "waiting"
    /\ ~poll.comps[c].expired
    /\ poll' = [poll EXCEPT !.comps[c].expired = TRUE]
    /\ UNCHANGED <<sd, tl, world, sync, sr>>

\* After the timeout the notifier returns the last result; it calls the
\* callback if it has none.
NotifierTimeout(c) ==
    /\ c \in DOMAIN poll.comps
    /\ poll.comps[c].pc = "waiting"
    /\ poll.comps[c].expired
    /\ \E comp \in {poll.comps[c]} :
           IF ~IsNone(comp.last)
           THEN Complete(c, [comp EXCEPT !.pc = "done", !.returned = comp.last])
           ELSE \E called \in {current_sync_callback(world, comp)} :
                    Complete(c, [comp EXCEPT
                        !.pc = "done",
                        !.generated = @ + 1,
                        !.callbacks = @ \cup {[batch_token |-> called.batch_token,
                                               full_state |-> called.full_state]},
                        !.last = Some(called.result),
                        !.returned = Some(called.result)])
    /\ UNCHANGED <<sd, tl, world, sync, sr>>

InitPoll == PollInit /\ sd = SdIdle /\ tl = TlIdle /\ sync = SyncIdle /\ sr = SrIdle
NextPoll ==
    \/ PollSend
    \/ PollCall
    \/ \E c \in 1..MaxCalls : PollGenerate(c)
    \/ \E c \in 1..MaxCalls : PollWait(c)
    \/ \E c \in 1..MaxCalls : NotifierCallback(c)
    \/ \E c \in 1..MaxCalls : NotifierExpire(c)
    \/ \E c \in 1..MaxCalls : NotifierTimeout(c)
SpecPoll == InitPoll /\ [][NextPoll]_vars

\* The notifier returns once its timeout has expired.
SpecPollFair ==
    SpecPoll /\ \A c \in 1..MaxCalls : WF_vars(NotifierTimeout(c))

Comps == {poll.comps[c] : c \in DOMAIN poll.comps}

\* C5: while a computation for a request key is registered in the cache, a
\* call with that key gets that computation and starts none; at most one
\* computation per key is in flight.
C5_OneComputationPerKey ==
    /\ \A i \in DOMAIN poll.calls :
           ~IsNone(poll.calls[i].registered) =>
               /\ poll.calls[i].comp = Val(poll.calls[i].registered)
               /\ ~poll.calls[i].started
    /\ \A key \in RequestKeys :
           Cardinality({c \in DOMAIN poll.comps :
               poll.comps[c].key = key /\ poll.comps[c].pc # "done"}) <= 1

\* A second call with the key of a pending computation, which it joined.
C5_Witness ==
    /\ Len(poll.calls) = 2
    /\ poll.calls[1].key = poll.calls[2].key
    /\ poll.calls[2].registered = Some(1)
    /\ poll.calls[2].comp = 1
    /\ Len(poll.comps) = 1

LongPoll(comp) == comp.timeout > 0 /\ ~IsNone(comp.batch_token) /\ ~comp.full_state

C6_Safe ==
    \A comp \in Comps :
        LongPoll(comp) =>
            /\ (comp.pc = "done" /\ ~comp.expired) =>
                   SyncResultNonzero(Val(comp.returned))
            /\ \A call \in comp.callbacks :
                   call.batch_token = comp.batch_token /\ ~call.full_state

Expired(c) == c \in DOMAIN poll.comps /\ poll.comps[c].expired
Returned(c) == c \in DOMAIN poll.comps /\ poll.comps[c].pc = "done"

\* C6: a long poll that returns before its timeout expires returns a
\* non-empty result, every recomputation is made from the original cursor
\* with full_state false, and once the timeout has expired the call returns.
C6_LongPollReturns ==
    /\ []C6_Safe
    /\ \A c \in 1..MaxCalls : Expired(c) ~> Returned(c)

\* A long poll that recomputed when a rejected message arrived, and returned
\* the empty result after the timeout.
C6_Witness ==
    \E comp \in Comps :
        /\ LongPoll(comp) /\ comp.pc = "done" /\ comp.expired
        /\ comp.callbacks # {}
        /\ ~SyncResultNonzero(Val(comp.returned))
        /\ Len(world.log) > Len(JoinedWorld.log)

\* C7: with timeout 0, or no cursor, or full_state, generate_sync_result is
\* called once, the notifier is not called, and the result is returned, empty
\* or not.
C7_ImmediateOnce ==
    \A comp \in Comps :
        (comp.timeout = 0 \/ IsNone(comp.batch_token) \/ comp.full_state) =>
            /\ comp.notifier_calls = 0
            /\ comp.generated <= 1
            /\ comp.pc = "done" => (comp.generated = 1 /\ comp.returned = comp.last)

\* A call with a timeout and full_state that returned, and a call with
\* timeout 0 that returned an empty result.
C7_Witness ==
    /\ \E comp \in Comps :
           /\ comp.timeout > 0 /\ comp.full_state /\ ~IsNone(comp.batch_token)
           /\ comp.pc = "done"
    /\ \E comp \in Comps :
           /\ comp.timeout = 0 /\ comp.pc = "done"
           /\ ~SyncResultNonzero(Val(comp.returned))


(***************************************************************************)
(* SpecFail: calls of wait_for_sync_for_user with timeout 0, where any     *)
(* call generate_sync_result makes to the store or to a collaborator may   *)
(* fail.  A computation goes through the yields of generate_sync_result    *)
(* one by one; the builder's sections fill as it goes.  poll is as in      *)
(* SpecPoll, but a computation is                                          *)
(*   pc       "run", "done" or "failed"                                    *)
(*   stage    the yield it is at                                           *)
(*   built    the sections of the SyncResultBuilder that are filled        *)
(*   raised   whether one of its calls failed                              *)
(*   outcome  what its deferred completed with                             *)
(* and a call records what its caller has observed.                        *)
(***************************************************************************)
MaxFailCalls == 3

\* The yields of generate_sync_result, lines 541-561.
Stages == <<"get_current_token", "account_data", "rooms", "presence">>

Failure(stage) == [status |-> "failed", stage |-> stage]

\* A failure handler that returns what the builder holds.
YieldFailedReturningBuilder(comp) ==
    [comp EXCEPT
        !.pc = "done",
        !.outcome = Some([generate_sync_result(
                              EmptyWorld, get_current_token(EmptyWorld), PollConfig,
                              None, FALSE, Extras(0, <<>>), PollChoices)
                          EXCEPT !.account_data =
                              IF "account_data" \in comp.built
                              THEN {"m.push_rules"} ELSE {}])]

\* A call made at a yield of generate_sync_result fails: nothing catches the
\* exception, and the deferred of the computation fails with it.
YieldFailed(comp) ==
    [comp EXCEPT !.pc = "failed", !.outcome = Some(Failure(Stages[comp.stage]))]

\* A call made at a yield returns: the builder has the section, and after
\* the last yield the SyncResult is returned (lines 563-576).
YieldReturned(W, comp) ==
    IF comp.stage < Len(Stages)
    THEN [comp EXCEPT !.stage = @ + 1, !.built = @ \cup {Stages[comp.stage]}]
    ELSE [comp EXCEPT
             !.pc = "done", !.built = @ \cup {Stages[comp.stage]},
             !.outcome = Some(generate_sync_result(
                             W, get_current_token(W), PollConfig, None, FALSE,
                             Extras(0, <<>>), PollChoices))]

FailInit ==
    /\ world = JoinedWorld
    /\ poll = [cache |-> <<>>, comps |-> <<>>, calls |-> <<>>]

\* wait_for_sync_for_user, up to the first yield of the computation it
\* starts.
FailCall ==
    \E key \in RequestKeys :
        LET next == Len(poll.comps) + 1
            got == wait_for_sync_for_user(poll.cache, key, next)
        IN  /\ Len(poll.calls) < MaxFailCalls
            /\ poll' = [cache |-> got.cache,
                        comps |-> IF got.started
                                  THEN Append(poll.comps,
                                           [key |-> key, pc |-> "run", stage |-> 1,
                                            built |-> {}, raised |-> FALSE,
                                            outcome |-> None])
                                  ELSE poll.comps,
                        calls |-> Append(poll.calls,
                                     [key |-> key, comp |-> got.result,
                                      started |-> got.started, observed |-> None])]
            /\ UNCHANGED <<sd, tl, world, sync, sr>>

\* The call a computation waits for returns.
FailYieldReturns(c) ==
    /\ c \in DOMAIN poll.comps
    /\ poll.comps[c].pc = "run"
    /\ \E comp \in {YieldReturned(world, poll.comps[c])} :
           poll' = [poll EXCEPT
                       !.comps[c] = comp,
                       !.cache = IF comp.pc = "run" THEN @
                                 ELSE response_cache_remove(@, comp.key)]
    /\ UNCHANGED <<sd, tl, world, sync, sr>>

\* The call a computation waits for fails.
FailYieldFails(c) ==
    /\ c \in DOMAIN poll.comps
    /\ poll.comps[c].pc = "run"
    /\ poll' = [poll EXCEPT
                   !.comps[c] = [YieldFailed(poll.comps[c]) EXCEPT !.raised = TRUE],
                   !.cache = response_cache_remove(@, poll.comps[c].key)]
    /\ UNCHANGED <<sd, tl, world, sync, sr>>

\* A caller observes what the computation it got completed with.
FailObserve(i) ==
    /\ i \in DOMAIN poll.calls
    /\ IsNone(poll.calls[i].observed)
    /\ ~IsNone(poll.comps[poll.calls[i].comp].outcome)
    /\ poll' = [poll EXCEPT !.calls[i].observed = poll.comps[poll.calls[i].comp].outcome]
    /\ UNCHANGED <<sd, tl, world, sync, sr>>

InitFail == FailInit /\ sd = SdIdle /\ tl = TlIdle /\ sync = SyncIdle /\ sr = SrIdle
NextFail ==
    \/ FailCall
    \/ \E c \in 1..MaxFailCalls : FailYieldReturns(c)
    \/ \E c \in 1..MaxFailCalls : FailYieldFails(c)
    \/ \E i \in 1..MaxFailCalls : FailObserve(i)
SpecFail == InitFail /\ [][NextFail]_vars

\* C21: a computation one of whose calls failed ends in failure, with no
\* SyncResult, and every caller that got this computation from the response
\* cache observes that failure.
C21_FailureIsWhole ==
    \A c \in DOMAIN poll.comps :
        poll.comps[c].raised =>
            /\ poll.comps[c].pc = "failed"
            /\ poll.comps[c].outcome = Some(Failure(Stages[poll.comps[c].stage]))
            /\ \A i \in DOMAIN poll.calls :
                   (poll.calls[i].comp = c /\ ~IsNone(poll.calls[i].observed)) =>
                       poll.calls[i].observed = poll.comps[c].outcome

\* A computation that failed at its last yield, with the builder's other
\* sections filled, and two callers that observed the failure.
C21_Witness ==
    \E c \in DOMAIN poll.comps :
        /\ poll.comps[c].raised
        /\ poll.comps[c].built = {"get_current_token", "account_data", "rooms"}
        /\ \E i, j \in DOMAIN poll.calls :
               /\ i # j
               /\ poll.calls[i].comp = c /\ poll.calls[j].comp = c
               /\ poll.calls[i].observed = Some(Failure("presence"))
               /\ poll.calls[j].observed = Some(Failure("presence"))


(***************************************************************************)
(* SpecConfig: SyncPaginationConfig(order, limit, tags) is constructed     *)
(* from values a request may hold.  A Python value is a record of its type *)
(* t and its value: n for an int, n tenths for a float, s for a str.       *)
(***************************************************************************)
MaxConfigLimit == 3

PyInt(n) == [t |-> "int", n |-> n, s |-> ""]
PyFloat(tenths) == [t |-> "float", n |-> tenths, s |-> ""]
PyStr(s) == [t |-> "str", n |-> 0, s |-> s]
PyNone == [t |-> "NoneType", n |-> 0, s |-> ""]

\* The strings of the model that int() accepts, and their values.
IntLiterals == [s \in {"0", "2", " 1 "} |-> IF s = "0" THEN 0 ELSE IF s = "2" THEN 2 ELSE 1]

\* int(x): [raised, value].  An int is itself, a float is truncated, a str
\* is parsed or raises ValueError, None raises TypeError.
int(x) ==
    IF x.t = "int" THEN [raised |-> FALSE, value |-> PyInt(x.n)]
    ELSE IF x.t = "float" THEN [raised |-> FALSE, value |-> PyInt(x.n \div 10)]
    ELSE IF x.t = "str" /\ x.s \in DOMAIN IntLiterals
    THEN [raised |-> FALSE, value |-> PyInt(IntLiterals[x.s])]
    ELSE [raised |-> TRUE, value |-> PyNone]

SYNC_PAGINATION_VALID_ORDERS == {SYNC_PAGINATION_ORDER_TS}
SYNC_PAGINATION_VALID_TAGS_OPTIONS ==
    {SYNC_PAGINATION_TAGS_INCLUDE_ALL, SYNC_PAGINATION_TAGS_IGNORE}

\* Lines 45-61.  The namedtuple's __new__ has stored the arguments before
\* __init__ runs; __init__ checks them, binds int(limit) to its local name
\* and calls object.__init__, which changes nothing.
NewSyncPaginationConfig(order, limit, tags) ==
    IF order \notin SYNC_PAGINATION_VALID_ORDERS
    THEN [status |-> 400, error |-> "Invalid 'order'", config |-> None]
    ELSE IF tags \notin SYNC_PAGINATION_VALID_TAGS_OPTIONS
    THEN [status |-> 400, error |-> "Invalid 'tags'", config |-> None]
    ELSE IF int(limit).raised
    THEN [status |-> 400, error |-> "Invalid 'limit'", config |-> None]
    ELSE [status |-> 200, error |-> "",
          config |-> Some(SyncPaginationConfig(order, limit, tags))]

ConfigLimits ==
    {PyInt(n) : n \in 0..MaxConfigLimit}
        \cup {PyFloat(15), PyFloat(20)}
        \cup {PyStr(s) : s \in {"0", "2", " 1 ", "x", ""}}
        \cup {PyNone}

ConfigInit ==
    \E order \in {SYNC_PAGINATION_ORDER_TS, "x"},
       tags \in {SYNC_PAGINATION_TAGS_INCLUDE_ALL, SYNC_PAGINATION_TAGS_IGNORE, "all"},
       limit \in ConfigLimits :
        sr = [pc |-> "start", order |-> order, limit |-> limit, tags |-> tags,
              result |-> None]

Construct ==
    /\ sr.pc = "start"
    /\ sr' = [sr EXCEPT !.pc = "done",
                        !.result = Some(NewSyncPaginationConfig(
                                            sr.order, sr.limit, sr.tags))]
    /\ UNCHANGED <<sd, tl, world, sync, poll>>

InitConfig ==
    ConfigInit /\ sd = SdIdle /\ tl = TlIdle /\ world = WorldIdle /\ sync = SyncIdle /\ poll = PollIdle
NextConfig == Construct
SpecConfig == InitConfig /\ [][NextConfig]_vars

\* C22: the construction fails with a 400 error when order is not a valid
\* order, when tags is not a valid option or when int(limit) raises, and a
\* config that is constructed holds an integer as its limit.
C22_ConfigValidated ==
    sr.pc = "done" =>
        /\ (\/ sr.order \notin SYNC_PAGINATION_VALID_ORDERS
            \/ sr.tags \notin SYNC_PAGINATION_VALID_TAGS_OPTIONS
            \/ int(sr.limit).raised) => Val(sr.result).status = 400
        /\ Val(sr.result).status = 200 =>
               Val(Val(sr.result).config).limit.t = "int"

\* ---------------------------------------------------------------------------
\* SpecPaginator: the paginator of _generate_sync_entry_for_rooms (lines
\* 835-909) applied to the plans of up to NumPagedRooms joined rooms whose
\* latest events may carry equal origin_server_ts.
\* ---------------------------------------------------------------------------

NumPagedRooms == 3

MaxTs == 2

\* int(limit) accepts negative limits too.
MinPageLimit == 0 - 1

PagedRooms == 1..NumPagedRooms

PagedOrders ==
    {o \in [PagedRooms -> PagedRooms] : \A r \in PagedRooms : \E i \in PagedRooms : o[i] = r}

\* The store of a user joined to the rooms of `joined`, the join being the
\* latest event of each room, stamped ts[room] by its origin server.
PagedWorld(joined, ts) ==
    LET seq == SortedSeq(joined)
    IN  [EmptyWorld EXCEPT !.log =
            [i \in 1..Len(seq) |->
                [MemberEvent(i, seq[i], User, User, JOIN)
                    EXCEPT !.origin_server_ts = ts[seq[i]]]]]

\* The plan of one joined room as lines 1069-1076 (initial) and 1025-1034
\* (incremental, nothing new since the cursor) build it; always_include as
\* the rewrites of lines 768-833 leave it.
PagedPlan(room_id, initial, now_token, always_include) ==
    [(IF initial
      THEN RoomSyncResultBuilder(room_id, "joined", None, FALSE, TRUE, None, now_token)
      ELSE RoomSyncResultBuilder(room_id, "joined", Some(<<>>), FALSE, FALSE,
                                 Some(now_token), now_token))
        EXCEPT !.always_include = always_include]

PaginatorInit(joined, ts, always, limit, extra, old, invite, order) ==
    [pc |-> "ready", joined |-> joined, ts |-> ts, always |-> always,
     pagination_config |->
         SyncPaginationConfig(SYNC_PAGINATION_ORDER_TS, limit, SYNC_PAGINATION_TAGS_IGNORE),
     extra_limit |-> extra, old_pagination_value |-> old,
     invited |-> IF invite
                 THEN <<InvitedSyncResult(NumPagedRooms + 1,
                            MemberEvent(0, NumPagedRooms + 1, "@inviter", User, "invite"))>>
                 ELSE <<>>,
     order |-> order, room_entries |-> <<>>, now_token |-> None, result |-> None]

\* Lines 835-909: fetch the timestamps, select the page, drop the plans
\* outside it, materialize the rest and append the invites.
PaginatorSync ==
    /\ sync.pc = "ready"
    /\ LET now_token == get_current_token(world)
           initial == sync.old_pagination_value = 0
           items == DictItems(sync.joined, sync.order)
           room_entries ==
               [i \in 1..Len(items) |->
                   PagedPlan(items[i], initial, now_token, items[i] \in sync.always)]
           builder_pagination_state ==
               IF initial THEN None
               ELSE Some(SyncPaginationState(
                        sync.pagination_config.order, sync.old_pagination_value,
                        sync.pagination_config.limit, sync.pagination_config.tags))
       IN  \E paged \in {Paginate(world, room_entries, sync.pagination_config,
                                  sync.old_pagination_value, sync.extra_limit,
                                  now_token, sync.order, builder_pagination_state)} :
           \E done \in {IF paged.status = "ok"
                        THEN Materialize(world, initial, now_token, 1,
                                         paged.room_entries, <<>>, <<>>, <<>>, TRUE)
                        ELSE [status |-> paged.status, results |-> <<>>]} :
               sync' = [sync EXCEPT
                   !.pc = "done",
                   !.room_entries = room_entries,
                   !.now_token = Some(now_token),
                   !.result = Some(
                       [status |-> done.status,
                        plans |-> paged.room_entries,
                        pagination_state |-> paged.pagination_state,
                        pagination_info |-> paged.pagination_info,
                        joined |-> SelectSeq(done.results, LAMBDA x : x.kind = "joined"),
                        archived |-> SelectSeq(done.results, LAMBDA x : x.kind = "archived"),
                        invited |-> sync.invited])]
    /\ UNCHANGED <<sd, tl, world, sr, poll>>

InitPaginator ==
    /\ sd = SdIdle /\ tl = TlIdle /\ sr = SrIdle /\ poll = PollIdle
    /\ \E joined \in SUBSET PagedRooms :
       \E ts \in [PagedRooms -> 1..MaxTs] :
       \E always \in SUBSET joined :
       \E limit \in MinPageLimit..MaxPageLimit :
       \E extra \in 0..1 :
       \E old \in 0..MaxTs :
       \E invite \in BOOLEAN :
       \E order \in PagedOrders :
           /\ \A r \in PagedRooms \ joined : ts[r] = 1
           /\ world = PagedWorld(joined, ts)
           /\ sync = PaginatorInit(joined, ts, always, limit, extra, old, invite, order)

NextPaginator == PaginatorSync

SpecPaginator == InitPaginator /\ [][NextPaginator]_vars

PaginatorDone == sync.pc = "done" /\ Val(sync.result).status = "ok"

\* The rooms of the plans handed to the paginator, with the timestamp of
\* the latest event of each.
PaginatorRooms == {sync.room_entries[i].room_id : i \in 1..Len(sync.room_entries)}

PaginatorKept ==
    {Val(sync.result).plans[i].room_id : i \in 1..Len(Val(sync.result).plans)}

PageSize == Max(sync.pagination_config.limit + sync.extra_limit, 0)

\* P is a page: PageSize rooms (all of them when there are fewer), none of
\* them older than a room left outside.
IsPage(P) ==
    /\ P \subseteq PaginatorRooms
    /\ Cardinality(P) = Min(PageSize, Cardinality(PaginatorRooms))
    /\ \A r \in P : \A q \in PaginatorRooms \ P : sync.ts[r] >= sync.ts[q]

\* The timestamp of the last room of page P.
PageValue(P) == CHOOSE v \in {sync.ts[r] : r \in P} : \A r \in P : v <= sync.ts[r]

\* C26: when the paginator runs, pagination_info.limited is true exactly when
\* some room outside the selected page, whichever it is, has a latest-activity
\* timestamp strictly between old_pagination_value and the timestamp of the
\* last room of the page.
C26_LimitedIffRoomBetween ==
    (PaginatorDone /\ PaginatorRooms # {} /\ PageSize > 0) =>
        \E P \in SUBSET PaginatorRooms :
            /\ IsPage(P)
            /\ P # {}
            /\ Val(Val(sync.result).pagination_info) =
                   (\E q \in PaginatorRooms \ P :
                        /\ sync.old_pagination_value < sync.ts[q]
                        /\ sync.ts[q] < PageValue(P))

PaginatorDropped == PaginatorRooms \ PaginatorKept

\* C27: whenever the paginator drops a plan because its room lies outside the
\* page, or reports limited, the response carries a pagination_state to
\* continue from.
C27_DeferredRoomsReachable ==
    (/\ PaginatorDone
     /\ \/ PaginatorDropped # {}
        \/ Val(Val(sync.result).pagination_info)) =>
        ~IsNone(Val(sync.result).pagination_state)

ResultRooms(list) == {list[i].room_id : i \in 1..Len(list)}

\* C28: the plans the paginator keeps are exactly those of the rooms of the
\* page and those flagged always_include; no dropped plan yields a Joined or
\* Archived result, every kept plan of an initial sync yields one, and the
\* Invited results pass through untouched.
C28_MaterializedIffInPage ==
    (PaginatorDone /\ PaginatorRooms # {}) =>
        /\ \E P \in SUBSET PaginatorRooms :
               /\ IsPage(P)
               /\ PaginatorKept = P \cup sync.always
        /\ ResultRooms(Val(sync.result).joined) \subseteq PaginatorKept
        /\ sync.old_pagination_value = 0 =>
               ResultRooms(Val(sync.result).joined) = PaginatorKept
        /\ \A r \in sync.always : r \in ResultRooms(Val(sync.result).joined)
        /\ Val(sync.result).archived = <<>>
        /\ Val(sync.result).invited = sync.invited

C28_Witness ==
    /\ PaginatorDone
    /\ PaginatorDropped # {}
    /\ \E r \in sync.always : \E q \in PaginatorDropped : sync.ts[r] < sync.ts[q]
    /\ sync.invited # <<>>

\* ---------------------------------------------------------------------------
\* SpecTags: a paginated initial sync over NumPagedRooms joined rooms, tag
\* changes on the rooms of Rooms after it, and the rewrite of the plans of
\* the next sync from its cursor (lines 748-819).
\* ---------------------------------------------------------------------------

MaxTagChanges == 2

TagsPeeks ==
    {<<>>} \cup {[r \in {x} |-> since] : x \in Rooms,
                    since \in {None, Some(StreamToken(1, 0, 0, 0, 0, 0))}}

\* Two of the orders in which a dict of the rooms may be iterated.
TagsOrders == {o \in PagedOrders : o[2] = 2}

TagsInit ==
    \E ts \in [PagedRooms -> 1..MaxTs], tagged \in SUBSET Rooms,
       limit \in 1..MaxPageLimit,
       tags \in {SYNC_PAGINATION_TAGS_INCLUDE_ALL, SYNC_PAGINATION_TAGS_IGNORE} :
        /\ world = [PagedWorld(PagedRooms, ts) EXCEPT !.acct = PagingTags(tagged)]
        /\ sync = [pc |-> "first", ts |-> ts,
                   pagination_config |->
                       SyncPaginationConfig(SYNC_PAGINATION_ORDER_TS, limit, tags),
                   cursor |-> None, changes |-> 0, order |-> <<>>,
                   request |-> None, room_entries |-> <<>>, planned |-> <<>>,
                   result |-> None]

TagsPlans(initial, now_token, order) ==
    LET items == DictItems(PagedRooms, order)
    IN  [i \in 1..Len(items) |-> PagedPlan(items[i], initial, now_token, FALSE)]

\* The initial sync with the pagination config: lines 748-751, 821-826 and
\* 835-893; the client keeps its next_batch.
TagsFirst ==
    \E order \in TagsOrders :
        LET now_token == get_current_token(world)
            include_all_tags ==
                sync.pagination_config.tags = SYNC_PAGINATION_TAGS_INCLUDE_ALL
        IN  /\ sync.pc = "first"
            /\ \E paged \in {Paginate(world,
                                 ApplyTagRules(world, TagsPlans(TRUE, now_token, order),
                                               order, None, None, TRUE,
                                               include_all_tags, <<>>),
                                 sync.pagination_config, 0, 0, now_token, order, None)} :
                   /\ paged.status = "ok"
                   /\ sync' = [sync EXCEPT
                          !.pc = "idle",
                          !.order = order,
                          !.cursor = Some([stream_token |-> now_token,
                                           pagination_state |-> paged.pagination_state])]
            /\ UNCHANGED <<sd, tl, world, sr, poll>>

\* The user tags a room, or removes the tags of a room.
TagsChange ==
    \E r \in Rooms, tagged \in BOOLEAN :
        /\ sync.pc = "idle"
        /\ sync.changes < MaxTagChanges
        /\ world' = [world EXCEPT !.acct = Append(@, TagEntry(r, tagged))]
        /\ sync' = [sync EXCEPT !.changes = @ + 1]
        /\ UNCHANGED <<sd, tl, sr, poll>>

\* The next sync from the cursor, without extras but a possible peek, and
\* with or without a pagination config of its own: lines 748-909.
TagsNext ==
    \E has_config \in BOOLEAN, include_map \in TagsPeeks,
       request_limit \in 1..MaxPageLimit,
       request_tags \in {SYNC_PAGINATION_TAGS_INCLUDE_ALL, SYNC_PAGINATION_TAGS_IGNORE} :
        LET now_token == get_current_token(world)
            order == sync.order
            since_token == Val(sync.cursor).stream_token
            builder_pagination_state == Val(sync.cursor).pagination_state
            pagination_config ==
                IF has_config
                THEN Some(SyncPaginationConfig(SYNC_PAGINATION_ORDER_TS,
                                               request_limit, request_tags))
                ELSE IF ~IsNone(builder_pagination_state)
                THEN Some(SyncPaginationConfig(
                         Val(builder_pagination_state).order,
                         Val(builder_pagination_state).limit,
                         Val(builder_pagination_state).tags))
                ELSE None
            old_pagination_value ==
                IF ~has_config /\ ~IsNone(builder_pagination_state)
                THEN Val(builder_pagination_state).value ELSE 0
            include_all_tags ==
                /\ ~IsNone(pagination_config)
                /\ Val(pagination_config).tags = SYNC_PAGINATION_TAGS_INCLUDE_ALL
            tag_rooms == get_updated_tags(world, since_token.account_data_key)
            tags_by_room == [r \in tag_rooms |-> r \in get_tags_for_user(world)]
            room_entries == TagsPlans(FALSE, since_token, order)
        IN  /\ sync.pc = "idle"
            /\ ~has_config =>
                   /\ request_tags = SYNC_PAGINATION_TAGS_IGNORE
                   /\ request_limit = 1
            /\ \E tagged \in {ApplyTagRules(world, room_entries, order,
                                  Some(since_token), builder_pagination_state,
                                  has_config, include_all_tags, include_map)} :
               \E paged \in {IF ~IsNone(pagination_config)
                             THEN Paginate(world, tagged, Val(pagination_config),
                                           old_pagination_value, 0, now_token,
                                           order, builder_pagination_state)
                             ELSE [status |-> "ok", room_entries |-> tagged,
                                   pagination_state |-> builder_pagination_state,
                                   pagination_info |-> None]} :
               \E done \in {IF paged.status = "ok"
                            THEN Materialize(world, FALSE, now_token,
                                             RoomsTimelineLimit, paged.room_entries,
                                             <<>>, tags_by_room, <<>>, TRUE)
                            ELSE [status |-> paged.status, results |-> <<>>]} :
                   sync' = [sync EXCEPT
                       !.pc = "done",
                       !.request = Some([has_config |-> has_config,
                                         include_all_tags |-> include_all_tags,
                                         include_map |-> include_map]),
                       !.room_entries = room_entries,
                       !.planned = tagged,
                       !.result = Some(
                           [status |-> done.status,
                            plans |-> paged.room_entries,
                            now_token |-> now_token,
                            joined |-> SelectSeq(done.results,
                                                 LAMBDA x : x.kind = "joined"),
                            archived |-> SelectSeq(done.results,
                                                   LAMBDA x : x.kind = "archived")])]
            /\ UNCHANGED <<sd, tl, world, sr, poll>>

InitTags == TagsInit /\ sd = SdIdle /\ tl = TlIdle /\ sr = SrIdle /\ poll = PollIdle

NextTags == TagsFirst \/ TagsChange \/ TagsNext

SpecTags == InitTags /\ [][NextTags]_vars

\* A page is being continued with tags = include_all.
TagsContinued ==
    /\ sync.pc = "done"
    /\ ~IsNone(Val(sync.cursor).pagination_state)
    /\ Val(sync.request).include_all_tags

\* The rooms whose state the client is missing: those that were older than
\* the last room of the page when the cursor was issued.
TagsMissing ==
    {r \in PagedRooms : sync.ts[r] < Val(Val(sync.cursor).pagination_state).value}

TagsCursorKey == Val(sync.cursor).stream_token.account_data_key

TaggedAtCursor(r) == r \in Rooms /\ TaggedAt(world, r, TagsCursorKey)

TaggedNow(r) == r \in Rooms /\ TaggedAt(world, r, Len(world.acct))

TagsTouched(r) ==
    r \in Rooms /\ TagEntries(world, r, Len(world.acct)) # TagEntries(world, r, TagsCursorKey)

\* C29: when a page is continued with tags = include_all, a plan of the
\* missing-state set whose room was newly tagged since the cursor is turned
\* into a resync (six fields), one whose tags were all removed gets
\* always_include = true and synced = false only, any other one whose room
\* has a tag gets always_include = true only; the peek and full-state
\* rewrites touch none of the three.
C29_TagRewrites ==
    TagsContinued =>
        \A i \in 1..Len(sync.room_entries) :
            LET r == sync.room_entries[i]
                after == sync.planned[i]
            IN  r.room_id \in TagsMissing =>
                    /\ (TagsTouched(r.room_id) /\ ~TaggedAtCursor(r.room_id)
                           /\ TaggedNow(r.room_id)) =>
                           after = [r EXCEPT !.since_token = None,
                                             !.always_include = TRUE,
                                             !.full_state = TRUE,
                                             !.would_require_resync = TRUE,
                                             !.events = None, !.synced = TRUE]
                    /\ (TagsTouched(r.room_id) /\ TaggedAtCursor(r.room_id)
                           /\ ~TaggedNow(r.room_id)) =>
                           after = [r EXCEPT !.always_include = TRUE,
                                             !.synced = FALSE]
                    /\ (TaggedNow(r.room_id)
                           /\ (TaggedAtCursor(r.room_id) \/ ~TagsTouched(r.room_id))) =>
                           after = [r EXCEPT !.always_include = TRUE]

\* All three cases at once would need three tagged rooms; two of them, in a
\* sync that also peeks into one of the two.
C29_Witness ==
    /\ TagsContinued
    /\ \E r \in TagsMissing : TagsTouched(r) /\ ~TaggedAtCursor(r) /\ TaggedNow(r)
                                  /\ r \in DOMAIN Val(sync.request).include_map
    /\ \E r \in TagsMissing : TagsTouched(r) /\ TaggedAtCursor(r) /\ ~TaggedNow(r)

\* The events of a room up to a token, newest last: every event of the
\* rooms of this specification passes the filters.
TagsEventsUpto(room_id, token) ==
    SelectSeq(RoomEvents(world, room_id), LAMBDA e : e.pos <= token.room_key)

\* C30: every Joined or Archived result of a plan that would require a
\* resync has the timeline of the latest events of the room up to the plan's
\* upto_token, the plan's since_token and events notwithstanding, and the
\* state delta of a full-state sync; also for plans without new events
\* since the cursor.
C30_ResyncLoadsWholeRoom ==
    (sync.pc = "done" /\ Val(sync.result).status = "ok") =>
        \A i \in 1..Len(Val(sync.result).plans) :
            LET plan == Val(sync.result).plans[i]
                results == ResultsFor(Val(sync.result).joined, plan.room_id)
                              \o ResultsFor(Val(sync.result).archived, plan.room_id)
            IN  plan.would_require_resync =>
                    \A j \in 1..Len(results) :
                        /\ results[j].timeline.events =
                               PySliceFrom(TagsEventsUpto(plan.room_id, plan.upto_token),
                                           0 - RoomsTimelineLimit)
                        /\ results[j].full_state
                        /\ results[j].state =
                               compute_state_delta(world, plan.room_id,
                                   results[j].timeline, None,
                                   Val(sync.result).now_token, TRUE, TRUE).state

\* A result of a plan that carries the flag, a since_token and an empty list
\* of events: the room is in the page of the request and its tags changed
\* while tags are ignored.
C30_Witness ==
    /\ sync.pc = "done" /\ Val(sync.result).status = "ok"
    /\ \E i \in 1..Len(Val(sync.result).plans) :
           LET plan == Val(sync.result).plans[i]
           IN  /\ plan.would_require_resync
               /\ ~IsNone(plan.since_token)
               /\ plan.events = Some(<<>>)
               /\ ResultsFor(Val(sync.result).joined, plan.room_id) # <<>>

\* ---------------------------------------------------------------------------
\* SpecTimestamps: one call of _get_room_timestamps_at_token (lines
\* 1255-1312) for the rooms the user is joined to, whose latest event the
\* timeline filter or the visibility filter may reject.
\* ---------------------------------------------------------------------------

MaxFetchLimit == 3

TimestampsInit ==
    \E order \in Orders, joined \in SUBSET Rooms,
       msg \in [Rooms -> {"none", "ok", "filtered", "hidden"}],
       limit \in 1..MaxFetchLimit :
        /\ world = [EmptyWorld EXCEPT !.log = PagingLog(order, joined, msg)]
        /\ \E room_key \in 0..Len(world.log) :
               sync = [pc |-> "ready", room_ids |-> joined, order |-> order,
                       token |-> StreamToken(room_key, 0, 0, 0, 0, 0),
                       limit |-> limit, result |-> None]

TimestampsCall ==
    /\ sync.pc = "ready"
    /\ sync' = [sync EXCEPT
           !.pc = "done",
           !.result = Some(_get_room_timestamps_at_token(
                          world, sync.room_ids, sync.order, sync.token, sync.limit))]
    /\ UNCHANGED <<sd, tl, world, sr, poll>>

InitTimestamps ==
    TimestampsInit /\ sd = SdIdle /\ tl = TlIdle /\ sr = SrIdle /\ poll = PollIdle

NextTimestamps == TimestampsCall

SpecTimestamps == InitTimestamps /\ [][NextTimestamps]_vars

\* The events of a room at the token that pass both filters, newest last.
VisibleAtToken(room_id) ==
    filter_events_for_client(filter_room_timeline(
        SelectSeq(RoomEvents(world, room_id),
                  LAMBDA e : e.pos <= sync.token.room_key)))

\* C31: every room of the map returned by _get_room_timestamps_at_token is
\* mapped to the origin_server_ts of its latest event at the token that
\* passes the timeline filter and the visibility filter, whether or not the
\* rooms outnumber the fetch bound (a room none of whose events passes has no
\* such timestamp and is left out of the statement).
C31_TimestampOfLatestVisible ==
    (sync.pc = "done" /\ Val(sync.result).status = "ok") =>
        \A x \in Val(sync.result).map :
            VisibleAtToken(x.room_id) # <<>> =>
                x.ts = Last(VisibleAtToken(x.room_id)).origin_server_ts

\* ---------------------------------------------------------------------------
\* SpecLimited: the syncs of a user joined to room 1 with a timeline limit of
\* 0 or 1, while messages that a filter may reject arrive in the room and
\* the user tags the room.
\* ---------------------------------------------------------------------------

MaxLimitedLog == 3

MaxLimitedTags == 1

LimitedInit ==
    /\ world = [EmptyWorld EXCEPT !.log = <<MemberEvent(1, 1, User, User, JOIN)>>]
    /\ sync = [pc |-> "idle", cursor |-> None, request |-> None, result |-> None]

LimitedMessage ==
    \E ok \in {"ok", "filtered", "hidden"} :
        /\ sync.pc = "idle"
        /\ Len(world.log) < MaxLimitedLog
        /\ world' = [world EXCEPT !.log = Append(@,
               MessageEvent(Len(world.log) + 1, 1, "@a", ok))]
        /\ UNCHANGED <<sd, tl, sync, sr, poll>>

LimitedTag ==
    /\ sync.pc = "idle"
    /\ Len(world.acct) < MaxLimitedTags
    /\ world' = [world EXCEPT !.acct = Append(@, TagEntry(1, TRUE))]
    /\ UNCHANGED <<sd, tl, sync, sr, poll>>

\* One sync with timeout 0, no extras and no pagination config.
LimitedSync ==
    \E with_cursor \in BOOLEAN, timeline_limit \in 0..1 :
        LET batch_token == IF with_cursor THEN sync.cursor ELSE None
            sync_config == SyncConfig(timeline_limit, FALSE, None)
            choices == [order |-> [i \in 1..NumRooms |-> i], prefer_last |-> TRUE]
        IN  /\ sync.pc = "idle"
            /\ with_cursor => ~IsNone(sync.cursor)
            /\ sync' = [sync EXCEPT
                   !.pc = "done",
                   !.request = Some([batch_token |-> batch_token,
                                     full_state |-> FALSE,
                                     sync_config |-> sync_config,
                                     extras |-> Extras(0, <<>>)]),
                   !.result = Some(generate_sync_result(
                       world, get_current_token(world), sync_config, batch_token,
                       FALSE, Extras(0, <<>>), choices))]
            /\ UNCHANGED <<sd, tl, world, sr, poll>>

InitLimited == LimitedInit /\ sd = SdIdle /\ tl = TlIdle /\ sr = SrIdle /\ poll = PollIdle

NextLimited == LimitedMessage \/ LimitedTag \/ LimitedSync \/ RoomsReceive

SpecLimited == InitLimited /\ [][NextLimited]_vars

\* C32: no sync reaches the incremental limited branch of compute_state_delta
\* with an empty batch: no sync fails on batch.events[-1], not with a
\* timeline limit of 0 and not when every new event is rejected by a filter
\* while the room has new account data.
C32_LimitedBatchNotEmpty ==
    sync.pc = "done" => Response.status # "error"

\* C33: for every limit the config accepts, zero and negative ones too, and
\* at least one room, the paginator completes without raising and keeps, the
\* always_include plans apart, at most max(limit, 0) + extras rooms.
C33_PaginatorCompletes ==
    (sync.pc = "done" /\ sync.joined # {}) =>
        /\ Val(sync.result).status = "ok"
        /\ Cardinality(PaginatorKept \ sync.always)
               <= Max(sync.pagination_config.limit, 0) + sync.extra_limit

\* ---------------------------------------------------------------------------
\* SpecAccountData: the syncs of a user joined to rooms 1 and 2 who may leave
\* room 2, while per-room account data of a type the filter admits or
\* rejects is set and rooms are tagged.
\* ---------------------------------------------------------------------------

MaxAccountData == 2

RoomAccountData(room_id, type) ==
    [kind |-> "room", room_id |-> room_id, tagged |-> FALSE, type |-> type]

AccountDataInit ==
    /\ world = [EmptyWorld EXCEPT !.log = <<MemberEvent(1, 1, User, User, JOIN),
                                           MemberEvent(2, 2, User, User, JOIN)>>]
    /\ sync = [pc |-> "idle", cursor |-> None, request |-> None, result |-> None]

AccountDataLeave ==
    /\ sync.pc = "idle"
    /\ MembershipOf(world, 2) = JOIN
    /\ world' = [world EXCEPT !.log = Append(@,
           MemberEvent(Len(world.log) + 1, 2, User, User, LEAVE))]
    /\ UNCHANGED <<sd, tl, sync, sr, poll>>

AccountDataSet ==
    \E r \in Rooms, type \in {"m.a", RejectedType, "m.tag"} :
        /\ sync.pc = "idle"
        /\ Len(world.acct) < MaxAccountData
        /\ world' = [world EXCEPT !.acct = Append(@,
               IF type = "m.tag" THEN TagEntry(r, TRUE) ELSE RoomAccountData(r, type))]
        /\ UNCHANGED <<sd, tl, sync, sr, poll>>

\* One sync with timeout 0, no extras and no pagination config.
AccountDataSync ==
    \E with_cursor \in BOOLEAN, include_leave \in BOOLEAN :
        LET batch_token == IF with_cursor THEN sync.cursor ELSE None
            sync_config == SyncConfig(RoomsTimelineLimit, include_leave, None)
            choices == [order |-> [i \in 1..NumRooms |-> i], prefer_last |-> TRUE]
        IN  /\ sync.pc = "idle"
            /\ with_cursor => ~IsNone(sync.cursor)
            /\ sync' = [sync EXCEPT
                   !.pc = "done",
                   !.request = Some([batch_token |-> batch_token,
                                     full_state |-> FALSE,
                                     sync_config |-> sync_config,
                                     extras |-> Extras(0, <<>>)]),
                   !.result = Some(generate_sync_result(
                       world, get_current_token(world), sync_config, batch_token,
                       FALSE, Extras(0, <<>>), choices))]
            /\ UNCHANGED <<sd, tl, world, sr, poll>>

InitAccountData ==
    AccountDataInit /\ sd = SdIdle /\ tl = TlIdle /\ sr = SrIdle /\ poll = PollIdle

NextAccountData ==
    AccountDataLeave \/ AccountDataSet \/ AccountDataSync \/ RoomsReceive

SpecAccountData == InitAccountData /\ [][NextAccountData]_vars

\* C34: every per-room account-data entry of a Joined or Archived result,
\* the m.tag entry included, is admitted by filter_room_account_data.
C34_RoomAccountDataFiltered ==
    (sync.pc = "done" /\ Response.status = "ok") =>
        /\ \A i \in 1..Len(Response.joined) :
               filter_room_account_data(Response.joined[i].account_data)
                   = Response.joined[i].account_data
        /\ \A i \in 1..Len(Response.archived) :
               filter_room_account_data(Response.archived[i].account_data)
                   = Response.archived[i].account_data

\* ---------------------------------------------------------------------------
\* SpecFanout: the materializers of one sync (lines 897-907), run by
\* concurrently_execute.  A materializer runs from one yield to the next
\* without interruption; between its start and its end the materializers of
\* other plans may start and end.
\*
\* sync.plans      the room plans, shared by the materializers
\* sync.given      the plans, full_state and now_token as they were handed over
\* sync.started    how many plans the workers have taken from the iterator
\* sync.w          per plan, where its materializer is and what it has read
\* sync.joined     sync_result_builder.joined
\* sync.archived   sync_result_builder.archived
\* ---------------------------------------------------------------------------

\* The third argument of concurrently_execute at line 907.
MaterializerLimit == 10

FanoutWorld(order, joined, msg, left) ==
    LET log == PagingLog(order, joined, msg)
        gone == SortedSeq(left)
    IN  [EmptyWorld EXCEPT !.log =
            log \o [i \in 1..Len(gone) |->
                       MemberEvent(Len(log) + i, gone[i], User, User, LEAVE)]]

\* The plans of an initial sync, or of a sync from the position since.
FanoutPlans(W, since, now_token) ==
    IF since < 0
    THEN _get_all_rooms(W, now_token, TRUE, {}).room_entries
    ELSE _get_rooms_changed(W, StreamToken(since, 0, 0, 0, 0, 0), now_token,
                            RoomsTimelineLimit, {}).room_entries

FanoutInit ==
    \E order \in Orders, joined \in SUBSET Rooms, left \in SUBSET Rooms,
       msg \in [Rooms -> {"none", "ok", "filtered"}] :
        /\ left \subseteq joined
        /\ world = FanoutWorld(order, joined, msg, left)
        /\ \E since \in (0 - 1)..Len(world.log) :
               LET now_token == get_current_token(world)
                   plans == FanoutPlans(world, since, now_token)
               IN  sync = [pc |-> IF plans = <<>> THEN "done" ELSE "run",
                           full_state |-> since < 0,
                           now_token |-> now_token,
                           plans |-> plans,
                           given |-> [plans |-> plans, full_state |-> since < 0,
                                      now_token |-> now_token],
                           started |-> 0,
                           w |-> [i \in 1..Len(plans) |-> [pc |-> "waiting", read |-> None]],
                           joined |-> <<>>, archived |-> <<>>, failed |-> FALSE]

FanoutInFlight == Cardinality({i \in DOMAIN sync.w : sync.w[i].pc = "running"})

\* A free worker takes the next plan from the iterator and runs its
\* materializer up to the first yield: lines 1150-1172.
FanoutBegin ==
    /\ sync.pc = "run"
    /\ sync.started < Len(sync.plans)
    /\ FanoutInFlight < MaterializerLimit
    /\ LET i == sync.started + 1
           room_builder == sync.plans[i]
       IN  sync' = [sync EXCEPT
               !.started = i,
               !.w[i] = [pc |-> "running",
                         read |-> Some([full_state |-> sync.full_state,
                                        now_token |-> sync.now_token,
                                        newly_joined |-> room_builder.newly_joined,
                                        always_include |-> room_builder.always_include,
                                        plan_full_state |-> room_builder.full_state,
                                        events |-> room_builder.events,
                                        room_id |-> room_builder.room_id,
                                        since_token |-> room_builder.since_token,
                                        upto_token |-> room_builder.upto_token])]]
    /\ UNCHANGED <<sd, tl, world, sr, poll>>

EmitReplacing(list, room_sync) == <<room_sync>>

\* Lines 1242 and 1251: the result is appended to its list.
Emit(list, room_sync) == Append(list, room_sync)

\* The materializer of plan i runs to its end: lines 1172-1253, with what it
\* read before its first yield and what the plan holds now.
FanoutFinish(i) ==
    /\ sync.pc = "run"
    /\ sync.w[i].pc = "running"
    /\ LET read == Val(sync.w[i].read)
           room_builder == [sync.plans[i] EXCEPT
                               !.newly_joined = read.newly_joined,
                               !.always_include = read.always_include,
                               !.full_state = read.plan_full_state,
                               !.events = read.events,
                               !.room_id = read.room_id,
                               !.since_token = read.since_token,
                               !.upto_token = read.upto_token]
       IN  \E one \in {_generate_room_entry(world, read.full_state, read.now_token,
                           RoomsTimelineLimit, room_builder, <<>>, None, {}, TRUE)} :
           LET emitted == one.status = "ok" /\ ~IsNone(one.result)
               w == [sync.w EXCEPT ![i] = [pc |-> "finished", read |-> None]]
           IN  sync' = [sync EXCEPT
                   !.w = w,
                   !.failed = @ \/ one.status # "ok",
                   !.joined = IF emitted /\ Val(one.result).kind = "joined"
                              THEN Emit(@, Val(one.result)) ELSE @,
                   !.archived = IF emitted /\ Val(one.result).kind = "archived"
                                THEN Emit(@, Val(one.result)) ELSE @,
                   !.pc = IF \A j \in DOMAIN w : w[j].pc = "finished"
                          THEN "done" ELSE "run"]
    /\ UNCHANGED <<sd, tl, world, sr, poll>>

InitFanout == FanoutInit /\ sd = SdIdle /\ tl = TlIdle /\ sr = SrIdle /\ poll = PollIdle

NextFanout == FanoutBegin \/ \E i \in DOMAIN sync.w : FanoutFinish(i)

SpecFanout == InitFanout /\ [][NextFanout]_vars

\* The results of the plans run one after another.
FanoutSequential ==
    Materialize(world, sync.given.full_state, sync.given.now_token,
                RoomsTimelineLimit, sync.given.plans, <<>>, <<>>, <<>>, TRUE)

\* C35: in every interleaving of the materializers, of which no more than
\* the limit are in flight, a plan contributes at most one result, to joined
\* or to archived as its rtype says; the plans and now_token stay as they
\* were handed over; and once all have ended the results are those of the
\* plans run one after another, in whatever order.
C35_MaterializersIndependent ==
    /\ FanoutInFlight <= MaterializerLimit
    /\ sync.plans = sync.given.plans
    /\ sync.now_token = sync.given.now_token
    /\ \A i \in 1..Len(sync.plans) :
           LET plan == sync.plans[i]
           IN  /\ Len(ResultsFor(sync.joined, plan.room_id))
                      + Len(ResultsFor(sync.archived, plan.room_id))
                      <= (IF sync.w[i].pc = "finished" THEN 1 ELSE 0)
               /\ ResultsFor(sync.joined, plan.room_id) # <<>> => plan.rtype = "joined"
               /\ ResultsFor(sync.archived, plan.room_id) # <<>> => plan.rtype = "archived"
    /\ (sync.pc = "done" /\ ~sync.failed) =>
           Range(sync.joined) \cup Range(sync.archived)
               = Range(FanoutSequential.results)

\* Two materializers were in flight together and the plan taken second
\* emitted its result first.
C35_Witness ==
    /\ sync.pc = "done" /\ ~sync.failed
    /\ Len(sync.plans) = 2
    /\ Len(sync.joined) = 2
    /\ sync.joined[1].room_id = sync.plans[2].room_id

====
